---- MODULE Spec2Model ----
(***************************************************************************)
(* Model of the migration engine (internal/migrations/manager.go) and of   *)
(* the seeder engine (internal/seeders/manager.go) of go-clean-gin.        *)
(*                                                                         *)
(* Strings are sequences of small naturals (one per character) so that     *)
(* sort.Strings is modelled by an actual lexicographic comparison.         *)
(* time.Now() is a logical clock that advances at every reading.           *)
(* A gorm transaction is a private write set that reaches the database     *)
(* only when Commit succeeds.                                              *)
(***************************************************************************)
EXTENDS Integers, Sequences, FiniteSets, TLC

\* ------------------------------------------------------------------ bounds
\* largest value time.Now() may reach
MaxClock == 4
\* largest rollback count a caller passes
MaxCount == 3
\* largest number of declared dependencies over all registered seeders
MaxEdges == 2

\* largest number of seeders registered with one manager
MaxSeeders == 3
\* largest number of units handed to a package's Register
MaxRegistered == 2
\* largest number of engines a process constructs per package
MaxManagers == 2

\* the number of dependencies ProductSeeder declares, the most in the repository
DeclaredDeps == 1

\* the character that stands for the suffix "Seeder"
SeederSuffix == 9

\* ------------------------------------------------------------- universes
\* version strings: "10" < "15" < "20" under lexicographic comparison
Versions == {<<1, 0>>, <<2, 0>>, <<1, 5>>}
NoVersion == <<>>
\* invocations that may exist; the sequential specification runs SeqProcs only
AllProcs == {1, 2}
SeqProcs == {1}

VARIABLES
  migrations,      \* mm.migrations: version -> Migration
  hasTable,        \* the migration_records table exists
  ledger,          \* committed rows of migration_records
  schema,          \* versions whose up effect is committed
  clock,           \* time.Now()
  pc,              \* per process: position in RunMigrations / RollbackMigrations
  op,              \* per process: operation in progress and its argument
  versions,        \* per process: the sorted versions slice
  appliedMap,      \* per process: appliedMap of RunMigrations (the versions mapped to true)
  appliedRecords,  \* per process: the appliedRecords slice of RollbackMigrations
  idx,             \* per process: loop index
  pendingCount,    \* per process: pendingCount
  tx,              \* per process: the open transaction
  result,          \* per process: the returned error
  trace,           \* per process: database and unit calls made by the invocation
  startLedger,     \* per process: ledger when the invocation started
  startSchema,     \* per process: schema when the invocation started
  prevRunOk,       \* the previous invocation was a RunMigrations that returned nil
  report           \* per process: what GetMigrationStatus logged

VARIABLES
  seeders,         \* sm.seeders
  spc,             \* position in RunSeeders / RunSpecificSeeder
  sop,             \* entry point and the target name it resolved
  toRun,           \* orderedSeeders / toRun
  sidx,            \* loop index
  sresult,         \* the returned error
  runLog,          \* names whose Run was invoked by the call
  seeded,          \* per seeder name: the rows of the table it seeds
  startSeeded      \* seeded when the call started

seedVars == <<seeders, spc, sop, toRun, sidx, sresult, runLog, seeded, startSeeded>>

migVars == <<migrations, hasTable, ledger, schema, clock, pc, op, versions, appliedMap,
             appliedRecords, idx, pendingCount, tx, result, trace,
             startLedger, startSchema, prevRunOk, report>>

VARIABLES
  registeredMigrations,  \* migrations.registeredMigrations
  globalManager,         \* migrations.globalManager: 0 for nil, else an index of managers
  managers,              \* the MigrationManagers constructed so far: their migrations maps
  registeredSeeders,     \* seeders.registeredSeeders
  globalSeederManager,   \* seeders.globalSeederManager: 0 for nil, else an index of seederManagers
  seederManagers         \* the SeederManagers constructed so far: their seeders slices

regVars == <<registeredMigrations, globalManager, managers,
             registeredSeeders, globalSeederManager, seederManagers>>

VARIABLES
  products,        \* the products table: id -> row
  pbefore,         \* products when the last product operation started
  pcalls,          \* repository writes the last product operation made
  pres             \* the last product operation, its caller and what it returned

prodVars == <<products, pbefore, pcalls, pres>>

VARIABLES
  users,           \* the users table, one row per element
  apc,             \* per request: position in authUsecase.Register
  areq,            \* per request: the RegisterRequest
  afound,          \* per request: what the two lookups found when they ran
  acalls,          \* per request: repository calls made
  ares             \* per request: the returned (*AuthResponse, error)

authVars == <<users, apc, areq, afound, acalls, ares>>

\* what the migration engine, the seeder engine, the unit registries and the
\* product usecase each leave alone
otherThanMig == <<seedVars, regVars, prodVars, authVars>>
otherThanSeed == <<migVars, regVars, prodVars, authVars>>
otherThanReg == <<migVars, seedVars, prodVars, authVars>>
otherThanProd == <<migVars, seedVars, regVars, authVars>>
otherThanAuth == <<migVars, seedVars, regVars, prodVars>>

vars == <<migVars, seedVars, regVars, prodVars, authVars>>

\* requests the HTTP server may be serving at once
AuthProcs == {1, 2}

NoRequest == [email |-> 0, username |-> 0]
NoLookups == [email |-> "none", username |-> "none"]
NoAuthResponse == [err |-> "nil", user |-> NoRequest, token |-> FALSE]

\* an empty users table, no request being served
InitAuth ==
  /\ users = <<>>
  /\ apc = [p \in AuthProcs |-> "idle"]
  /\ areq = [p \in AuthProcs |-> NoRequest]
  /\ afound = [p \in AuthProcs |-> NoLookups]
  /\ acalls = [p \in AuthProcs |-> <<>>]
  /\ ares = [p \in AuthProcs |-> NoAuthResponse]

\* no unit registered, no engine constructed
InitReg ==
  /\ registeredMigrations = <<>>
  /\ globalManager = 0
  /\ managers = <<>>
  /\ registeredSeeders = <<>>
  /\ globalSeederManager = 0
  /\ seederManagers = <<>>

\* entity.Product: the owner and two of the fields a request may change
Product(owner, name, price) == [createdBy |-> owner, name |-> name, price |-> price]
NoProduct == [createdBy |-> 0, name |-> 0, price |-> 0]
EmptyProducts == [i \in {} |-> NoProduct]

NoProductResult == [op |-> "none", id |-> 0, user |-> 0, err |-> "nil", product |-> NoProduct]
ProductResult(o, i, u, e, pr) == [op |-> o, id |-> i, user |-> u, err |-> e, product |-> pr]

InitProd ==
  /\ products = EmptyProducts
  /\ pbefore = EmptyProducts
  /\ pcalls = <<>>
  /\ pres = NoProductResult

\* --------------------------------------------------------------- helpers
Upd(f, p, v) == [f EXCEPT ![p] = v]

Min(a, b) == IF a < b THEN a ELSE b

SeqToSet(s) == {s[i] : i \in 1..Len(s)}

\* all orderings of a finite set, as sequences without repetition
Perms(S) == {s \in [1..Cardinality(S) -> S] : \A i, j \in 1..Cardinality(S) : s[i] = s[j] => i = j}

\* Go's string comparison a < b
RECURSIVE LexLess(_, _)
LexLess(a, b) ==
  IF a = <<>> THEN b # <<>>
  ELSE IF b = <<>> THEN FALSE
  ELSE IF Head(a) < Head(b) THEN TRUE
  ELSE IF Head(a) > Head(b) THEN FALSE
  ELSE LexLess(Tail(a), Tail(b))

RECURSIVE Insert(_, _)
Insert(x, s) ==
  IF s = <<>> THEN <<x>>
  ELSE IF LexLess(Head(s), x) THEN <<Head(s)>> \o Insert(x, Tail(s))
  ELSE <<x>> \o s

RECURSIVE InsertionSort(_)
InsertionSort(s) == IF s = <<>> THEN <<>> ELSE Insert(Head(s), InsertionSort(Tail(s)))

\* a plausible bug: the collected versions are used in map iteration order
SortStringsSkipped(s) == s

\* sort.Strings(versions)
SortStrings(s) == InsertionSort(s)

\* ------------------------------------------------------------ migrations
\* a registered Migration: the unit behind a version
Unit(v) == [version |-> v]

\* a plausible bug: AppliedAt is left at its zero value
RecordAtZero(v, t) == [version |-> v, applied_at |-> 0]

\* MigrationRecord (the surrogate ID is not modelled; a row is its own key)
Record(v, t) == [version |-> v, applied_at |-> t]

NoTx == [status |-> "none", ups |-> {}, downs |-> {}, ins |-> {}, dels |-> {}]

\* mm.db.Begin()
TxBegin == [NoTx EXCEPT !.status = "open"]

\* tx.Rollback(): the write set is discarded
TxRollback(t) == [NoTx EXCEPT !.status = "rolledback"]

\* a plausible bug: Up is handed mm.db, so its effect is applied outside the transaction
UpOutsideTx(s, t, v) == [schema |-> s \cup {v}, tx |-> t]

\* migration.Up(tx) succeeding: the effect joins the transaction's write set
UpEffect(s, t, v) == [schema |-> s, tx |-> [t EXCEPT !.ups = @ \cup {v}]]

\* migration.Down(tx) succeeding
DownEffect(s, t, v) == [schema |-> s, tx |-> [t EXCEPT !.downs = @ \cup {v}]]

\* tx.Create(&record) succeeding
TxCreate(t, r) == [t EXCEPT !.ins = @ \cup {r}]

\* a plausible bug: the delete matches no row and the record stays
TxDeleteNothing(t, r) == t

\* tx.Delete(&record) succeeding
TxDelete(t, r) == [t EXCEPT !.dels = @ \cup {r}]

\* what tx.Commit() succeeding makes durable
CommitLedger(l, t) == (l \ t.dels) \cup t.ins
CommitSchema(s, t) == (s \ t.downs) \cup t.ups

AppliedVersions(l) == {r.version : r \in l}

\* a plausible bug: the applied check is dropped and every version is run
IsAppliedNever(applied, v) == FALSE

\* appliedMap[version]
IsApplied(applied, v) == v \in applied

\* a plausible bug: the loop goes on to the next migration after a failure
ContinueAfterFailure(i) == [pc |-> "run_loop", idx |-> i + 1]

\* return fmt.Errorf("migration %s failed: %w", version, err)
AbortRun(i) == [pc |-> "done", idx |-> i]

\* a plausible bug: a record whose version is not registered is skipped
SkipUnregistered(i) == [pc |-> "rb_loop", idx |-> i + 1]

\* return fmt.Errorf("migration %s not found in registered migrations", record.Version)
AbortOnUnregistered(i) == [pc |-> "done", idx |-> i]

\* a plausible bug: count < 0 instead of count <= 0
CountRejectedOffByOne(count) == count < 0

\* if count <= 0
CountRejected(count) == count <= 0

IsDescByAppliedAt(s) == \A i \in 1..(Len(s) - 1) : s[i].applied_at >= s[i + 1].applied_at

\* a plausible bug: ORDER BY version DESC
OrderByVersionDescLimit(l, count) ==
  LET n == Min(count, Cardinality(l)) IN
  {s \in [1..n -> l] :
     /\ \A i, j \in 1..n : s[i] = s[j] => i = j
     /\ \A i \in 1..(n - 1) : LexLess(s[i + 1].version, s[i].version)
     /\ \A r \in l \ SeqToSet(s) : \A i \in 1..n : LexLess(r.version, s[i].version)}

\* a plausible bug: fewer rows than requested are treated as nothing to do
OrderByAppliedAtDescExact(l, count) ==
  IF Cardinality(l) < count THEN {<<>>}
  ELSE
  {s \in [1..count -> l] :
     /\ \A i, j \in 1..count : s[i] = s[j] => i = j
     /\ IsDescByAppliedAt(s)
     /\ \A r \in l \ SeqToSet(s) : \A i \in 1..count : r.applied_at <= s[i].applied_at}

\* mm.db.Order("applied_at DESC").Limit(count).Find(&appliedRecords): the results
\* the database may return (rows of equal applied_at come in either order)
OrderByAppliedAtDescLimit(l, count) ==
  LET n == Min(count, Cardinality(l)) IN
  {s \in [1..n -> l] :
     /\ \A i, j \in 1..n : s[i] = s[j] => i = j
     /\ IsDescByAppliedAt(s)
     /\ \A r \in l \ SeqToSet(s) : \A i \in 1..n : r.applied_at <= s[i].applied_at}

Nil == [msg |-> "nil", version |-> NoVersion, cause |-> "nil"]
Err(m, v, c) == [msg |-> m, version |-> v, cause |-> c]

Ev(k, v) == <<k, v>>

\* the registry a list of Register calls leaves in the map (last write wins)
RECURSIVE RegisterAll(_, _)
RegisterAll(m, regs) ==
  IF regs = <<>> THEN m
  ELSE RegisterAll(
         [v \in DOMAIN m \cup {Head(regs).version} |->
            IF v = Head(regs).version THEN Head(regs) ELSE m[v]],
         Tail(regs))

EmptyMap == [v \in {} |-> Unit(NoVersion)]

RegLists == UNION {Perms({Unit(v) : v \in S}) : S \in SUBSET Versions}

\* the status lines and the summary GetMigrationStatus logs
NoReport == [lines |-> <<>>, applied |-> 0, pending |-> 0, total |-> 0]

\* a plausible bug: the applied count is the number of ledger rows
AppliedCountOfLedger(vs, applied) == Cardinality(applied)

\* appliedCount++ for each registered version found in appliedMap
AppliedCount(vs, applied) == Cardinality({i \in 1..Len(vs) : vs[i] \in applied})

\* pendingCount++ for each registered version not found in appliedMap
PendingCount(vs, applied) == Cardinality({i \in 1..Len(vs) : vs[i] \notin applied})

\* GetMigrationStatus, lines 201-235: one line per sorted version, then the summary
StatusReport(vs, applied) ==
  [lines |-> [i \in 1..Len(vs) |-> [version |-> vs[i], applied |-> vs[i] \in applied]],
   applied |-> AppliedCount(vs, applied),
   pending |-> PendingCount(vs, applied),
   total |-> Len(vs)]

\* no process has called into the migration engine
InitMigRest ==
  /\ hasTable = FALSE
  /\ ledger = {}
  /\ schema = {}
  /\ clock = 0
  /\ pc = [p \in AllProcs |-> "idle"]
  /\ op = [p \in AllProcs |-> [name |-> "none", count |-> 0]]
  /\ versions = [p \in AllProcs |-> <<>>]
  /\ appliedMap = [p \in AllProcs |-> {}]
  /\ appliedRecords = [p \in AllProcs |-> <<>>]
  /\ idx = [p \in AllProcs |-> 0]
  /\ pendingCount = [p \in AllProcs |-> 0]
  /\ tx = [p \in AllProcs |-> NoTx]
  /\ result = [p \in AllProcs |-> Nil]
  /\ trace = [p \in AllProcs |-> <<>>]
  /\ startLedger = [p \in AllProcs |-> {}]
  /\ startSchema = [p \in AllProcs |-> {}]
  /\ prevRunOk = FALSE
  /\ report = [p \in AllProcs |-> NoReport]

\* the migration engine of a process that only seeds: nothing registered, no call
InitMigIdle ==
  /\ migrations = EmptyMap
  /\ InitMigRest

\* a fresh database and the registry the process's init() functions built
InitMig ==
  /\ \E regs \in RegLists : migrations = RegisterAll(EmptyMap, regs)
  /\ InitMigRest

\* NewMigrationManager(db): a process starts with its own registration list
NewMigrationManager(regs) ==
  /\ \A p \in AllProcs : pc[p] = "idle"
  /\ migrations' = RegisterAll(EmptyMap, regs)
  /\ migrations' # migrations
  /\ prevRunOk' = FALSE
  /\ UNCHANGED <<hasTable, ledger, schema, clock, pc, op, versions, appliedMap, appliedRecords,
                 idx, pendingCount, tx, result, trace, startLedger,
                 startSchema>>
  /\ UNCHANGED report
  /\ UNCHANGED otherThanMig

\* Register(migration) with a global manager set: RegisterMigration on it
Register(u) ==
  /\ \A p \in AllProcs : pc[p] = "idle"
  /\ migrations' = RegisterAll(migrations, <<u>>)
  /\ migrations' # migrations
  /\ prevRunOk' = FALSE
  /\ UNCHANGED <<hasTable, ledger, schema, clock, pc, op, versions, appliedMap, appliedRecords,
                 idx, pendingCount, tx, result, trace, startLedger,
                 startSchema>>
  /\ UNCHANGED report
  /\ UNCHANGED otherThanMig

Pending(m, l) == DOMAIN m \ AppliedVersions(l)

\* RunMigrations, lines 77-99: AutoMigrate, Find, build appliedMap, sort the versions
RunMigrationsBegin(p) ==
  /\ pc[p] = "idle"
  /\ clock + Cardinality(Pending(migrations, ledger)) <= MaxClock
  /\ op' = Upd(op, p, [name |-> "run", count |-> 0])
  /\ startLedger' = Upd(startLedger, p, ledger)
  /\ startSchema' = Upd(startSchema, p, schema)
  /\ idx' = Upd(idx, p, 1)
  /\ pendingCount' = Upd(pendingCount, p, 0)
  /\ tx' = Upd(tx, p, NoTx)
  /\ \E autoOk \in BOOLEAN, findOk \in BOOLEAN, order \in Perms(DOMAIN migrations) :
       IF ~autoOk THEN
         /\ result' = Upd(result, p, Err("failed to create migrations table", NoVersion, "storage"))
         /\ trace' = Upd(trace, p, <<Ev("automigrate", NoVersion)>>)
         /\ pc' = Upd(pc, p, "done")
         /\ UNCHANGED <<hasTable, appliedMap, versions>>
       ELSE IF ~findOk THEN
         /\ hasTable' = TRUE
         /\ result' = Upd(result, p, Err("failed to get applied migrations", NoVersion, "storage"))
         /\ trace' = Upd(trace, p, <<Ev("automigrate", NoVersion), Ev("find", NoVersion)>>)
         /\ pc' = Upd(pc, p, "done")
         /\ UNCHANGED <<appliedMap, versions>>
       ELSE
         /\ hasTable' = TRUE
         /\ result' = Upd(result, p, Nil)
         /\ trace' = Upd(trace, p, <<Ev("automigrate", NoVersion), Ev("find", NoVersion)>>)
         /\ appliedMap' = Upd(appliedMap, p, AppliedVersions(ledger))
         /\ versions' = Upd(versions, p, SortStrings(order))
         /\ pc' = Upd(pc, p, "run_loop")
  /\ UNCHANGED <<migrations, ledger, schema, clock, appliedRecords, prevRunOk>>
  /\ UNCHANGED report
  /\ UNCHANGED otherThanMig

\* RunMigrations, lines 103-132, up to tx := mm.db.Begin() of runSingleMigration
RunLoop(p) ==
  /\ pc[p] = "run_loop"
  /\ IF idx[p] > Len(versions[p]) THEN
       /\ pc' = Upd(pc, p, "done")
       /\ result' = Upd(result, p, Nil)
       /\ UNCHANGED <<idx, pendingCount, tx, trace>>
     ELSE IF IsApplied(appliedMap[p], versions[p][idx[p]]) THEN
       /\ idx' = Upd(idx, p, idx[p] + 1)
       /\ UNCHANGED <<pc, result, pendingCount, tx, trace>>
     ELSE
       /\ pendingCount' = Upd(pendingCount, p, pendingCount[p] + 1)
       /\ trace' = Upd(trace, p, Append(trace[p], Ev("begin", versions[p][idx[p]])))
       /\ \E beginOk \in BOOLEAN :
            IF beginOk THEN
              /\ tx' = Upd(tx, p, TxBegin)
              /\ pc' = Upd(pc, p, "run_up")
              /\ UNCHANGED <<idx, result>>
            ELSE
              /\ tx' = Upd(tx, p, NoTx)
              /\ pc' = Upd(pc, p, AbortRun(idx[p]).pc)
              /\ idx' = Upd(idx, p, AbortRun(idx[p]).idx)
              /\ result' = Upd(result, p, Err("migration failed", versions[p][idx[p]],
                                              "failed to start transaction"))
  /\ UNCHANGED <<migrations, hasTable, ledger, schema, clock, op, versions, appliedMap,
                 appliedRecords, startLedger, startSchema, prevRunOk>>
  /\ UNCHANGED report
  /\ UNCHANGED otherThanMig

\* runSingleMigration, lines 247-251: migration.Up(tx)
RunUp(p) ==
  /\ pc[p] = "run_up"
  /\ LET v == migrations[versions[p][idx[p]]].version IN
     /\ trace' = Upd(trace, p, Append(trace[p], Ev("up", v)))
     /\ \E upOk \in BOOLEAN :
          IF upOk THEN
            /\ tx' = Upd(tx, p, UpEffect(schema, tx[p], v).tx)
            /\ schema' = UpEffect(schema, tx[p], v).schema
            /\ pc' = Upd(pc, p, "run_create")
            /\ UNCHANGED <<idx, result>>
          ELSE
            /\ tx' = Upd(tx, p, TxRollback(tx[p]))
            /\ schema' = schema
            /\ pc' = Upd(pc, p, AbortRun(idx[p]).pc)
            /\ idx' = Upd(idx, p, AbortRun(idx[p]).idx)
            /\ result' = Upd(result, p, Err("migration failed", versions[p][idx[p]],
                                            "migration failed"))
  /\ UNCHANGED <<migrations, hasTable, ledger, clock, op, versions, appliedMap, appliedRecords,
                 pendingCount, startLedger, startSchema, prevRunOk>>
  /\ UNCHANGED report
  /\ UNCHANGED otherThanMig

\* a plausible bug: the ledger has no unique index on version
UniqueVersionMissing(l, v) == TRUE

\* Version string `gorm:"uniqueIndex;not null"`: the index accepts a row of version v
UniqueVersionAccepts(l, v) == v \notin AppliedVersions(l)

\* the insert waits on the unique index while another open transaction holds
\* an uncommitted row of the same version
InsertBlocked(p, v) ==
  \E q \in AllProcs \ {p} :
    tx[q].status = "open" /\ v \in AppliedVersions(tx[q].ins)

\* runSingleMigration, lines 253-263: build the record at time.Now(), tx.Create
RunCreate(p) ==
  /\ pc[p] = "run_create"
  /\ clock < MaxClock
  /\ ~InsertBlocked(p, migrations[versions[p][idx[p]]].version)
  /\ clock' = clock + 1
  /\ LET v == migrations[versions[p][idx[p]]].version IN
     /\ trace' = Upd(trace, p, Append(trace[p], Ev("create", v)))
     /\ \E createOk \in BOOLEAN :
          IF createOk /\ UniqueVersionAccepts(ledger, v) THEN
            /\ tx' = Upd(tx, p, TxCreate(tx[p], Record(v, clock')))
            /\ pc' = Upd(pc, p, "run_commit")
            /\ UNCHANGED <<idx, result>>
          ELSE
            /\ tx' = Upd(tx, p, TxRollback(tx[p]))
            /\ pc' = Upd(pc, p, AbortRun(idx[p]).pc)
            /\ idx' = Upd(idx, p, AbortRun(idx[p]).idx)
            /\ result' = Upd(result, p, Err("migration failed", versions[p][idx[p]],
                                            "failed to record migration"))
  /\ UNCHANGED <<migrations, hasTable, ledger, schema, op, versions, appliedMap, appliedRecords,
                 pendingCount, startLedger, startSchema, prevRunOk>>
  /\ UNCHANGED report
  /\ UNCHANGED otherThanMig

\* runSingleMigration, lines 265-270: tx.Commit()
RunCommit(p) ==
  /\ pc[p] = "run_commit"
  /\ trace' = Upd(trace, p, Append(trace[p], Ev("commit", versions[p][idx[p]])))
  /\ \E commitOk \in BOOLEAN :
       IF commitOk THEN
         /\ ledger' = CommitLedger(ledger, tx[p])
         /\ schema' = CommitSchema(schema, tx[p])
         /\ tx' = Upd(tx, p, [NoTx EXCEPT !.status = "committed"])
         /\ idx' = Upd(idx, p, idx[p] + 1)
         /\ pc' = Upd(pc, p, "run_loop")
         /\ UNCHANGED result
       ELSE
         /\ UNCHANGED <<ledger, schema>>
         /\ tx' = Upd(tx, p, [NoTx EXCEPT !.status = "commit_failed"])
         /\ pc' = Upd(pc, p, AbortRun(idx[p]).pc)
         /\ idx' = Upd(idx, p, AbortRun(idx[p]).idx)
         /\ result' = Upd(result, p, Err("migration failed", versions[p][idx[p]],
                                         "failed to commit migration"))
  /\ UNCHANGED <<migrations, hasTable, clock, op, versions, appliedMap, appliedRecords,
                 pendingCount, startLedger, startSchema, prevRunOk>>
  /\ UNCHANGED report
  /\ UNCHANGED otherThanMig

\* a plausible bug: RollbackMigrations creates the ledger table like RunMigrations
LedgerTableAutoMigrated(table) == TRUE

\* RollbackMigrations has no AutoMigrate: the ledger table is as it was found
LedgerTableAtRollback(table) == table

\* RollbackMigrations, lines 136-156: the count check and the ledger query
RollbackMigrationsBegin(p, count) ==
  /\ pc[p] = "idle"
  /\ op' = Upd(op, p, [name |-> "rollback", count |-> count])
  /\ startLedger' = Upd(startLedger, p, ledger)
  /\ startSchema' = Upd(startSchema, p, schema)
  /\ idx' = Upd(idx, p, 1)
  /\ tx' = Upd(tx, p, NoTx)
  /\ IF CountRejected(count) THEN
       /\ result' = Upd(result, p, Err("rollback count must be greater than 0", NoVersion, "usage"))
       /\ trace' = Upd(trace, p, <<>>)
       /\ pc' = Upd(pc, p, "done")
       /\ UNCHANGED <<appliedRecords, hasTable>>
     ELSE
       /\ trace' = Upd(trace, p, <<Ev("find", NoVersion)>>)
       /\ hasTable' = LedgerTableAtRollback(hasTable)
       /\ \E findOk \in BOOLEAN :
            IF ~findOk \/ ~hasTable' THEN
              /\ result' = Upd(result, p, Err("failed to get applied migrations", NoVersion, "storage"))
              /\ pc' = Upd(pc, p, "done")
              /\ UNCHANGED appliedRecords
            ELSE
              \E recs \in OrderByAppliedAtDescLimit(ledger, count) :
                /\ appliedRecords' = Upd(appliedRecords, p, recs)
                /\ result' = Upd(result, p, Nil)
                /\ pc' = Upd(pc, p, IF Len(recs) = 0 THEN "done" ELSE "rb_loop")
  /\ UNCHANGED <<migrations, ledger, schema, clock, versions, appliedMap,
                 pendingCount, prevRunOk>>
  /\ UNCHANGED report
  /\ UNCHANGED otherThanMig

\* RollbackMigrations, lines 159-179, up to tx := mm.db.Begin() of rollbackSingleMigration
RollbackLoop(p) ==
  /\ pc[p] = "rb_loop"
  /\ IF idx[p] > Len(appliedRecords[p]) THEN
       /\ pc' = Upd(pc, p, "done")
       /\ result' = Upd(result, p, Nil)
       /\ UNCHANGED <<tx, trace, idx>>
     ELSE IF appliedRecords[p][idx[p]].version \notin DOMAIN migrations THEN
       /\ pc' = Upd(pc, p, AbortOnUnregistered(idx[p]).pc)
       /\ idx' = Upd(idx, p, AbortOnUnregistered(idx[p]).idx)
       /\ result' = Upd(result, p, Err("migration not found in registered migrations",
                                       appliedRecords[p][idx[p]].version, "registry"))
       /\ UNCHANGED <<tx, trace>>
     ELSE
       /\ trace' = Upd(trace, p, Append(trace[p], Ev("begin", appliedRecords[p][idx[p]].version)))
       /\ UNCHANGED idx
       /\ \E beginOk \in BOOLEAN :
            IF beginOk THEN
              /\ tx' = Upd(tx, p, TxBegin)
              /\ pc' = Upd(pc, p, "rb_down")
              /\ UNCHANGED result
            ELSE
              /\ tx' = Upd(tx, p, NoTx)
              /\ pc' = Upd(pc, p, "done")
              /\ result' = Upd(result, p, Err("rollback failed", appliedRecords[p][idx[p]].version,
                                              "failed to start transaction"))
  /\ UNCHANGED <<migrations, hasTable, ledger, schema, clock, op, versions, appliedMap,
                 appliedRecords, pendingCount, startLedger, startSchema, prevRunOk>>
  /\ UNCHANGED report
  /\ UNCHANGED otherThanMig

\* rollbackSingleMigration, lines 281-285: migration.Down(tx)
RollbackDown(p) ==
  /\ pc[p] = "rb_down"
  /\ LET v == migrations[appliedRecords[p][idx[p]].version].version IN
     /\ trace' = Upd(trace, p, Append(trace[p], Ev("down", v)))
     /\ \E downOk \in BOOLEAN :
          IF downOk THEN
            /\ tx' = Upd(tx, p, DownEffect(schema, tx[p], v).tx)
            /\ schema' = DownEffect(schema, tx[p], v).schema
            /\ pc' = Upd(pc, p, "rb_delete")
            /\ UNCHANGED result
          ELSE
            /\ tx' = Upd(tx, p, TxRollback(tx[p]))
            /\ schema' = schema
            /\ pc' = Upd(pc, p, "done")
            /\ result' = Upd(result, p, Err("rollback failed", appliedRecords[p][idx[p]].version,
                                            "rollback failed"))
  /\ UNCHANGED <<migrations, hasTable, ledger, clock, op, versions, appliedMap,
                 appliedRecords, idx, pendingCount, startLedger, startSchema, prevRunOk>>
  /\ UNCHANGED report
  /\ UNCHANGED otherThanMig

\* rollbackSingleMigration, lines 287-291: tx.Delete(&record)
RollbackDelete(p) ==
  /\ pc[p] = "rb_delete"
  /\ trace' = Upd(trace, p, Append(trace[p], Ev("delete", appliedRecords[p][idx[p]].version)))
  /\ \E deleteOk \in BOOLEAN :
       IF deleteOk THEN
         /\ tx' = Upd(tx, p, TxDelete(tx[p], appliedRecords[p][idx[p]]))
         /\ pc' = Upd(pc, p, "rb_commit")
         /\ UNCHANGED result
       ELSE
         /\ tx' = Upd(tx, p, TxRollback(tx[p]))
         /\ pc' = Upd(pc, p, "done")
         /\ result' = Upd(result, p, Err("rollback failed", appliedRecords[p][idx[p]].version,
                                         "failed to remove migration record"))
  /\ UNCHANGED <<migrations, hasTable, ledger, schema, clock, op, versions, appliedMap,
                 appliedRecords, idx, pendingCount, startLedger, startSchema, prevRunOk>>
  /\ UNCHANGED report
  /\ UNCHANGED otherThanMig

\* rollbackSingleMigration, lines 293-298: tx.Commit()
RollbackCommit(p) ==
  /\ pc[p] = "rb_commit"
  /\ trace' = Upd(trace, p, Append(trace[p], Ev("commit", appliedRecords[p][idx[p]].version)))
  /\ \E commitOk \in BOOLEAN :
       IF commitOk THEN
         /\ ledger' = CommitLedger(ledger, tx[p])
         /\ schema' = CommitSchema(schema, tx[p])
         /\ tx' = Upd(tx, p, [NoTx EXCEPT !.status = "committed"])
         /\ idx' = Upd(idx, p, idx[p] + 1)
         /\ pc' = Upd(pc, p, "rb_loop")
         /\ UNCHANGED result
       ELSE
         /\ UNCHANGED <<ledger, schema, idx>>
         /\ tx' = Upd(tx, p, [NoTx EXCEPT !.status = "commit_failed"])
         /\ pc' = Upd(pc, p, "done")
         /\ result' = Upd(result, p, Err("rollback failed", appliedRecords[p][idx[p]].version,
                                         "failed to commit rollback"))
  /\ UNCHANGED <<migrations, hasTable, clock, op, versions, appliedMap, appliedRecords,
                 pendingCount, startLedger, startSchema, prevRunOk>>
  /\ UNCHANGED report
  /\ UNCHANGED otherThanMig

\* GetMigrationStatus, lines 183-237
GetMigrationStatus(p) ==
  /\ pc[p] = "idle"
  /\ op' = Upd(op, p, [name |-> "status", count |-> 0])
  /\ startLedger' = Upd(startLedger, p, ledger)
  /\ startSchema' = Upd(startSchema, p, schema)
  /\ pc' = Upd(pc, p, "done")
  /\ \E autoOk \in BOOLEAN, findOk \in BOOLEAN, order \in Perms(DOMAIN migrations) :
       IF ~autoOk THEN
         /\ result' = Upd(result, p, Err("failed to create migrations table", NoVersion, "storage"))
         /\ trace' = Upd(trace, p, <<Ev("automigrate", NoVersion)>>)
         /\ UNCHANGED <<hasTable, report>>
       ELSE IF ~findOk THEN
         /\ hasTable' = TRUE
         /\ result' = Upd(result, p, Err("failed to get applied migrations", NoVersion, "storage"))
         /\ trace' = Upd(trace, p, <<Ev("automigrate", NoVersion), Ev("find", NoVersion)>>)
         /\ UNCHANGED report
       ELSE
         /\ hasTable' = TRUE
         /\ result' = Upd(result, p, Nil)
         /\ trace' = Upd(trace, p, <<Ev("automigrate", NoVersion), Ev("find", NoVersion)>>)
         /\ report' = Upd(report, p, StatusReport(SortStrings(order), AppliedVersions(ledger)))
  /\ UNCHANGED <<migrations, ledger, schema, clock, versions, appliedMap, appliedRecords,
                 idx, pendingCount, tx, prevRunOk>>
  /\ UNCHANGED otherThanMig

\* the invocation has returned to its caller; its locals are gone
Return(p) ==
  /\ pc[p] = "done"
  /\ pc' = Upd(pc, p, "idle")
  /\ prevRunOk' = (op[p].name = "run" /\ result[p] = Nil)
  /\ op' = Upd(op, p, [name |-> "none", count |-> 0])
  /\ versions' = Upd(versions, p, <<>>)
  /\ appliedMap' = Upd(appliedMap, p, {})
  /\ appliedRecords' = Upd(appliedRecords, p, <<>>)
  /\ idx' = Upd(idx, p, 0)
  /\ pendingCount' = Upd(pendingCount, p, 0)
  /\ tx' = Upd(tx, p, NoTx)
  /\ result' = Upd(result, p, Nil)
  /\ trace' = Upd(trace, p, <<>>)
  /\ startLedger' = Upd(startLedger, p, {})
  /\ startSchema' = Upd(startSchema, p, {})
  /\ report' = Upd(report, p, NoReport)
  /\ UNCHANGED <<migrations, hasTable, ledger, schema, clock>>
  /\ UNCHANGED otherThanMig

\* ---------------------------------------------------------------- seeders
\* seeder names are strings that end in "Seeder" by convention; the suffix is
\* one character of the model's alphabet
NameA == <<1, SeederSuffix>>
NameB == <<2, SeederSuffix>>
NameC == <<3, SeederSuffix>>
\* a name that no seeder carries
Ghost == <<7, SeederSuffix>>
SeederNames == {NameA, NameB, NameC}
DepNames == SeederNames \cup {Ghost}
NoName == <<>>

\* a registered Seeder: Name() and Dependencies()
Seeder(n, deps) == [name |-> n, deps |-> deps]

SeqsUpTo(S, n) == UNION {[1..k -> S] : k \in 0..n}

\* strings.HasSuffix(seederName, "Seeder")
HasSuffix(n) == Len(n) >= 1 /\ n[Len(n)] = SeederSuffix

\* if !strings.HasSuffix(seederName, "Seeder") { seederName += "Seeder" }
NormalizeName(n) == IF HasSuffix(n) THEN n ELSE Append(n, SeederSuffix)

\* seederMap[seeder.Name()] = seeder, over sm.seeders in order (last write wins)
RECURSIVE BuildSeederMap(_, _)
BuildSeederMap(m, list) ==
  IF list = <<>> THEN m
  ELSE BuildSeederMap(
         [n \in DOMAIN m \cup {Head(list).name} |->
            IF n = Head(list).name THEN Head(list) ELSE m[n]],
         Tail(list))

EmptySeederMap == [n \in {} |-> Seeder(NoName, <<>>)]

SeederMap(list) == BuildSeederMap(EmptySeederMap, list)

NoErr == [msgs |-> <<>>, names |-> <<>>]
SErr(m, ns) == [msgs |-> <<m>>, names |-> ns]
\* fmt.Errorf("... %s ...: %w", n, e)
Wrap(m, n, e) == [msgs |-> <<m>> \o e.msgs, names |-> <<n>> \o e.names]

\* resolveDependencies, lines 163-171: the first declared dependency that is
\* not registered, over sm.seeders and each Dependencies() in order
RECURSIVE FirstMissingDep(_, _)
FirstMissingDep(deps, m) ==
  IF deps = <<>> THEN NoName
  ELSE IF Head(deps) \notin DOMAIN m THEN Head(deps)
  ELSE FirstMissingDep(Tail(deps), m)

RECURSIVE FirstMissing(_, _)
FirstMissing(list, m) ==
  IF list = <<>> THEN NoErr
  ELSE IF FirstMissingDep(Head(list).deps, m) # NoName
       THEN SErr("depends on but not found",
                 <<Head(list).name, FirstMissingDep(Head(list).deps, m),
                   FirstMissingDep(Head(list).deps, m)>>)
  ELSE FirstMissing(Tail(list), m)

\* a plausible bug: a dependent is listed once per dependency, however often
\* it declares it
RECURSIVE AddEdgesOnce(_, _, _)
AddEdgesOnce(g, name, deps) ==
  IF deps = <<>> THEN g
  ELSE AddEdgesOnce([g EXCEPT ![Head(deps)] =
                       IF name \in SeqToSet(@) THEN @ ELSE Append(@, name)],
                    name, Tail(deps))

\* topologicalSort, lines 237-242: graph[dep] = append(graph[dep], name) for
\* the names in map iteration order
RECURSIVE AddEdges(_, _, _)
AddEdges(g, name, deps) ==
  IF deps = <<>> THEN g
  ELSE AddEdges([g EXCEPT ![Head(deps)] = Append(@, name)], name, Tail(deps))

RECURSIVE BuildGraph(_, _, _)
BuildGraph(g, iter, m) ==
  IF iter = <<>> THEN g
  ELSE BuildGraph(AddEdges(g, Head(iter), m[Head(iter)].deps), Tail(iter), m)

\* inDegree[name]++ once per declared dependency
InDegree(m) == [n \in DOMAIN m |-> Len(m[n].deps)]

\* lines 245-250: the zero in-degree names, in map iteration order
InitialQueue(iter, deg) == SelectSeq(iter, LAMBDA n : deg[n] = 0)

\* a plausible bug: a neighbor is enqueued as soon as one dependency is done
EnqueueAlways(d) == TRUE

\* if inDegree[neighbor] == 0
EnqueueWhen(d) == d = 0

\* lines 261-266: decrement the in-degree of each neighbor, enqueue at zero
RECURSIVE Relax(_, _, _)
Relax(neighbors, deg, queue) ==
  IF neighbors = <<>> THEN [deg |-> deg, queue |-> queue]
  ELSE LET n == Head(neighbors)
           d == deg[n] - 1
       IN Relax(Tail(neighbors), [deg EXCEPT ![n] = d],
                IF EnqueueWhen(d) THEN Append(queue, n) ELSE queue)

\* lines 252-267: the queue loop; fuel bounds the unrolling and is never
\* exhausted, each name being dequeued at most once
RECURSIVE KahnLoop(_, _, _, _, _, _)
KahnLoop(queue, deg, res, g, m, fuel) ==
  IF queue = <<>> \/ fuel = 0 THEN res
  ELSE LET cur == Head(queue)
           r == Relax(g[cur], deg, Tail(queue))
       IN KahnLoop(r.queue, r.deg, Append(res, m[cur]), g, m, fuel - 1)

\* lines 227-267: the result slice when the queue loop ends
KahnResult(m, iter1, iter2) ==
  LET g == BuildGraph([n \in DOMAIN m |-> <<>>], iter1, m)
      deg == InDegree(m)
  IN KahnLoop(InitialQueue(iter2, deg), deg, <<>>, g, m,
              Cardinality(DOMAIN m) * Cardinality(DOMAIN m) + 1)

\* topologicalSort(seederMap) for the two map iteration orders iter1, iter2
TopologicalSort(m, iter1, iter2) ==
  LET res == KahnResult(m, iter1, iter2)
  IN IF Len(res) # Cardinality(DOMAIN m)
     THEN [order |-> <<>>, err |-> SErr("circular dependency detected in seeders", <<>>)]
     ELSE [order |-> res, err |-> NoErr]

\* resolveDependencies()
ResolveDependencies(list, iter1, iter2) ==
  LET m == SeederMap(list) IN
  IF FirstMissing(list, m) # NoErr
  THEN [order |-> <<>>, err |-> FirstMissing(list, m)]
  ELSE TopologicalSort(m, iter1, iter2)

\* a plausible bug: the seeder is put in front of the list
VisitDonePrepend(st, s) ==
  [st EXCEPT !.visiting = @ \ {s.name}, !.visited = @ \cup {s.name},
             !.result = <<s>> \o @]

\* lines 211-213: visiting[name] = false; visited[name] = true; append
VisitDone(st, s) ==
  [st EXCEPT !.visiting = @ \ {s.name}, !.visited = @ \cup {s.name},
             !.result = Append(@, s)]

\* a plausible bug: the in-progress mark is not checked
OnPathIgnored(st, name) == FALSE

\* if visiting[name]
OnPath(st, name) == name \in st.visiting

\* a plausible bug: the done mark is not checked
AlreadyVisitedIgnored(st, name) == FALSE

\* if visited[name]
AlreadyVisited(st, name) == name \in st.visited

\* a plausible bug: the in-progress mark is never set
MarkVisitingSkipped(st, name) == st

\* visiting[name] = true
MarkVisiting(st, name) == [st EXCEPT !.visiting = @ \cup {name}]

\* resolveDependenciesFor, lines 188-215: the recursive visit closure; fuel
\* bounds the depth of the recursion and is never exhausted, a path holding
\* each registered name at most once
RECURSIVE Visit(_, _, _, _)
RECURSIVE VisitDeps(_, _, _, _)
Visit(name, st, m, fuel) ==
  IF fuel = 0 THEN [st EXCEPT !.err = SErr("stack overflow", <<name>>)]
  ELSE IF OnPath(st, name)
  THEN [st EXCEPT !.err = SErr("circular dependency detected involving", <<name>>)]
  ELSE IF AlreadyVisited(st, name) THEN st
  ELSE IF name \notin DOMAIN m
  THEN [st EXCEPT !.err = SErr("seeder not found", <<name>>)]
  ELSE LET after == VisitDeps(m[name].deps, MarkVisiting(st, name), m, fuel - 1)
       IN IF after.err # NoErr THEN after ELSE VisitDone(after, m[name])

VisitDeps(deps, st, m, fuel) ==
  IF deps = <<>> THEN st
  ELSE LET after == Visit(Head(deps), st, m, fuel)
       IN IF after.err # NoErr THEN after ELSE VisitDeps(Tail(deps), after, m, fuel)

\* resolveDependenciesFor(targetSeeder)
ResolveDependenciesFor(list, target) ==
  LET m == SeederMap(list)
      st == Visit(target.name, [visited |-> {}, visiting |-> {}, result |-> <<>>, err |-> NoErr],
                  m, Cardinality(DOMAIN m) + 2)
  IN IF st.err # NoErr THEN [order |-> <<>>, err |-> st.err]
     ELSE [order |-> st.result, err |-> NoErr]

\* RunSpecificSeeder, lines 120-126: the first seeder of that name
RECURSIVE FindSeeder(_, _)
FindSeeder(list, n) ==
  IF list = <<>> THEN Seeder(NoName, <<>>)
  ELSE IF Head(list).name = n THEN Head(list)
  ELSE FindSeeder(Tail(list), n)

\* a plausible bug: the target-scoped run validates the whole registry first
ResolveSpecificValidated(list, n) ==
  IF FirstMissing(list, SeederMap(list)) # NoErr
  THEN [order |-> <<>>,
        err |-> Wrap("failed to resolve dependencies for", n, FirstMissing(list, SeederMap(list)))]
  ELSE IF FindSeeder(list, n).name = NoName
  THEN [order |-> <<>>, err |-> SErr("seeder not found", <<n>>)]
  ELSE ResolveDependenciesFor(list, FindSeeder(list, n))

\* RunSpecificSeeder, lines 118-136: lookup and resolution
ResolveSpecific(list, n) ==
  IF FindSeeder(list, n).name = NoName
  THEN [order |-> <<>>, err |-> SErr("seeder not found", <<n>>)]
  ELSE LET r == ResolveDependenciesFor(list, FindSeeder(list, n))
       IN IF r.err # NoErr
          THEN [order |-> <<>>, err |-> Wrap("failed to resolve dependencies for", n, r.err)]
          ELSE r

RECURSIVE TotalDeps(_)
TotalDeps(list) ==
  IF list = <<>> THEN 0 ELSE Len(Head(list).deps) + TotalDeps(Tail(list))

\* what a seeder's table holds: nothing, some of its rows, all of them
RowStates == {"empty", "partial", "full"}

NoRows == [n \in SeederNames |-> "empty"]

\* seeder.Run(sm.db) as UserSeeder and ProductSeeder do it, on a table in state
\* cur: the COUNT(*) query, the skip when rows exist, then one INSERT per row on
\* sm.db itself; each outcome is the table afterwards and whether Run returned nil
RunOutcomes(cur) ==
  IF cur # "empty"
  THEN {[rows |-> cur, ok |-> FALSE], [rows |-> cur, ok |-> TRUE]}
  ELSE {[rows |-> "empty", ok |-> FALSE], [rows |-> "partial", ok |-> FALSE],
        [rows |-> "full", ok |-> TRUE]}

\* seeder.Run(sm.db) of an arbitrary Seeder: it returns nil or an error, and the
\* rows it writes are not followed
AnyRun(cur) == {[rows |-> cur, ok |-> FALSE], [rows |-> cur, ok |-> TRUE]}

\* a plausible bug: the loop goes on to the next seeder after a failure
ContinueSeeding(i, n) == [spc |-> IF i = n THEN "done" ELSE "running", sidx |-> i + 1]

\* return fmt.Errorf("seeder %s failed: %w", seeder.Name(), err)
AbortSeeding(i, n) == [spc |-> "done", sidx |-> i]

InitSeed ==
  /\ seeders = <<>>
  /\ seeded = NoRows
  /\ startSeeded = NoRows
  /\ spc = "idle"
  /\ sop = [entry |-> "none", target |-> NoName]
  /\ toRun = <<>>
  /\ sidx = 0
  /\ sresult = NoErr
  /\ runLog = <<>>

\* Register(seeder) / RegisterSeeder: sm.seeders = append(sm.seeders, seeder)
RegisterSeeder(s) ==
  /\ spc = "idle"
  /\ Len(seeders) < MaxSeeders
  /\ TotalDeps(seeders) + Len(s.deps) <= MaxEdges
  /\ seeders' = Append(seeders, s)
  /\ UNCHANGED <<spc, sop, toRun, sidx, sresult, runLog, seeded, startSeeded>>
  /\ UNCHANGED otherThanSeed

\* the state in which the run loop starts, or the returned error
Resolved(entry, target, r, wrapName) ==
  /\ sop' = [entry |-> entry, target |-> target]
  /\ runLog' = <<>>
  /\ startSeeded' = seeded
  /\ UNCHANGED seeded
  /\ IF r.err # NoErr THEN
       /\ spc' = "done"
       /\ toRun' = <<>>
       /\ sidx' = 0
       /\ sresult' = IF wrapName = NoName THEN r.err ELSE Wrap("seeder failed", wrapName, r.err)
     ELSE
       /\ spc' = IF r.order = <<>> THEN "done" ELSE "running"
       /\ toRun' = r.order
       /\ sidx' = 1
       /\ sresult' = NoErr

\* RunSeeders(seederName), lines 67-96, up to the first seeder.Run
RunSeeders(arg) ==
  /\ spc = "idle"
  /\ IF Len(seeders) = 0 THEN
       Resolved("RunSeeders", NoName, [order |-> <<>>, err |-> NoErr], NoName)
     ELSE IF arg # NoName THEN
       Resolved("RunSeeders", NormalizeName(arg),
                ResolveSpecific(seeders, NormalizeName(arg)), NormalizeName(arg))
     ELSE
       \E iter1 \in Perms(DOMAIN SeederMap(seeders)), iter2 \in Perms(DOMAIN SeederMap(seeders)) :
         LET r == ResolveDependencies(seeders, iter1, iter2) IN
         Resolved("RunSeeders", NoName,
                  IF r.err # NoErr
                  THEN [order |-> <<>>, err |-> Wrap("failed to resolve dependencies", NoName, r.err)]
                  ELSE r,
                  NoName)
  /\ UNCHANGED seeders
  /\ UNCHANGED otherThanSeed

\* RunSpecificSeeder(seederName) called directly, lines 118-136
RunSpecificSeeder(arg) ==
  /\ spc = "idle"
  /\ Resolved("RunSpecificSeeder", arg, ResolveSpecific(seeders, arg), NoName)
  /\ UNCHANGED seeders
  /\ UNCHANGED otherThanSeed

\* one iteration of the run loop, lines 99-111 and 139-150: seeder.Run(sm.db),
\* Run being the method of the seeders registered
SeederRun(Run) ==
  /\ spc = "running"
  /\ runLog' = Append(runLog, toRun[sidx].name)
  /\ \E out \in Run[seeded[toRun[sidx].name]] :
       /\ seeded' = [seeded EXCEPT ![toRun[sidx].name] = out.rows]
       /\ IF out.ok THEN
            /\ sidx' = sidx + 1
            /\ spc' = IF sidx = Len(toRun) THEN "done" ELSE "running"
            /\ sresult' = sresult
          ELSE
            /\ sidx' = AbortSeeding(sidx, Len(toRun)).sidx
            /\ spc' = AbortSeeding(sidx, Len(toRun)).spc
            /\ sresult' =
                 LET e == Wrap("seeder failed", toRun[sidx].name, SErr("run", <<>>)) IN
                 IF sop.entry = "RunSeeders" /\ sop.target # NoName
                 THEN Wrap("seeder failed", sop.target, e) ELSE e
  /\ UNCHANGED <<seeders, sop, toRun, startSeeded>>
  /\ UNCHANGED otherThanSeed

\* the seeding call has returned to its caller
SeedReturn ==
  /\ spc = "done"
  /\ spc' = "idle"
  /\ sop' = [entry |-> "none", target |-> NoName]
  /\ toRun' = <<>>
  /\ sidx' = 0
  /\ sresult' = NoErr
  /\ runLog' = <<>>
  /\ startSeeded' = NoRows
  /\ UNCHANGED <<seeders, seeded>>
  /\ UNCHANGED otherThanSeed

\* names a caller passes: with and without the suffix, and unknown ones
SeederArgs == {NoName} \cup DepNames \cup {<<n[1]>> : n \in DepNames}

\* the names sm.seeders holds
RegisteredNames == {seeders[i].name : i \in 1..Len(seeders)}

\* seeders of distinct names, as the seeders of the repository are
NextSeed ==
  \/ \E n \in SeederNames \ RegisteredNames, deps \in SeqsUpTo(DepNames, MaxEdges) :
       RegisterSeeder(Seeder(n, deps))
  \/ \E arg \in SeederArgs : RunSeeders(arg)
  \/ \E arg \in SeederArgs \ {NoName} : RunSpecificSeeder(arg)
  \/ SeederRun([cur \in RowStates |-> AnyRun(cur)])
  \/ SeedReturn

\* a process that registers seeders and seeds
InitSeeding == InitSeed /\ InitMigIdle /\ InitReg /\ InitProd /\ InitAuth

\* the seeder engine
SpecSeed == InitSeeding /\ [][NextSeed]_vars

\* seeders written as UserSeeder and ProductSeeder are: each fills its own
\* table and names at most one dependency, a seeder of the repository
NextSeedData ==
  \/ \E n \in SeederNames \ RegisteredNames, deps \in SeqsUpTo(SeederNames, DeclaredDeps) :
       RegisterSeeder(Seeder(n, deps))
  \/ \E arg \in {NoName} \cup SeederNames : RunSeeders(arg)
  \/ \E arg \in SeederNames : RunSpecificSeeder(arg)
  \/ SeederRun([cur \in RowStates |-> RunOutcomes(cur)])
  \/ SeedReturn

InitSeedingData == InitSeed /\ InitMigIdle /\ InitReg /\ InitProd /\ InitAuth

\* the seeder engine running the repository's kind of seeder
SpecSeedData == InitSeedingData /\ [][NextSeedData]_vars

\* seeders that may share a name
DupNames == {NameA, NameB}

NextSeedDup ==
  \/ \E n \in DupNames, deps \in SeqsUpTo(DupNames \cup {Ghost}, MaxEdges) :
       RegisterSeeder(Seeder(n, deps))
  \/ \E arg \in {NoName} \cup DupNames : RunSeeders(arg)
  \/ \E arg \in DupNames : RunSpecificSeeder(arg)
  \/ SeederRun([cur \in RowStates |-> AnyRun(cur)])
  \/ SeedReturn

InitSeedingDup == InitSeed /\ InitMigIdle /\ InitReg /\ InitProd /\ InitAuth

\* the seeder engine over registrations that repeat a name
SpecSeedDup == InitSeedingDup /\ [][NextSeedDup]_vars

\* ------------------------------------------------------------ registration
\* the units a process registers
RegUnits == {Unit(<<1, 0>>), Unit(<<2, 0>>)}
RegSeeders == {Seeder(NameA, <<>>), Seeder(NameB, <<NameA>>)}

\* migrations.Register(migration), lines 62-69
migrations_Register(u) ==
  /\ Len(registeredMigrations) < MaxRegistered
  /\ registeredMigrations' = Append(registeredMigrations, u)
  /\ managers' = IF globalManager # 0
                 THEN [managers EXCEPT ![globalManager] = RegisterAll(@, <<u>>)]
                 ELSE managers
  /\ UNCHANGED <<globalManager, registeredSeeders, globalSeederManager, seederManagers>>
  /\ UNCHANGED otherThanReg

\* migrations.NewMigrationManager(db), lines 42-54
migrations_NewMigrationManager ==
  /\ Len(managers) < MaxManagers
  /\ managers' = Append(managers, RegisterAll(EmptyMap, registeredMigrations))
  /\ UNCHANGED <<registeredMigrations, globalManager,
                 registeredSeeders, globalSeederManager, seederManagers>>
  /\ UNCHANGED otherThanReg

\* migrations.SetGlobalManager(manager), lines 57-59
migrations_SetGlobalManager(e) ==
  /\ e \in 1..Len(managers)
  /\ globalManager' = e
  /\ UNCHANGED <<registeredMigrations, managers,
                 registeredSeeders, globalSeederManager, seederManagers>>
  /\ UNCHANGED otherThanReg

\* seeders.Register(seeder), lines 52-59
seeders_Register(u) ==
  /\ Len(registeredSeeders) < MaxRegistered
  /\ registeredSeeders' = Append(registeredSeeders, u)
  /\ seederManagers' = IF globalSeederManager # 0
                       THEN [seederManagers EXCEPT ![globalSeederManager] = Append(@, u)]
                       ELSE seederManagers
  /\ UNCHANGED <<registeredMigrations, globalManager, managers, globalSeederManager>>
  /\ UNCHANGED otherThanReg

\* seeders.NewSeederManager(db), lines 32-44
seeders_NewSeederManager ==
  /\ Len(seederManagers) < MaxManagers
  /\ seederManagers' = Append(seederManagers, registeredSeeders)
  /\ UNCHANGED <<registeredMigrations, globalManager, managers,
                 registeredSeeders, globalSeederManager>>
  /\ UNCHANGED otherThanReg

\* seeders.SetGlobalSeederManager(manager), lines 47-49
seeders_SetGlobalSeederManager(e) ==
  /\ e \in 1..Len(seederManagers)
  /\ globalSeederManager' = e
  /\ UNCHANGED <<registeredMigrations, globalManager, managers,
                 registeredSeeders, seederManagers>>
  /\ UNCHANGED otherThanReg

NextReg ==
  \/ \E u \in RegUnits : migrations_Register(u)
  \/ migrations_NewMigrationManager
  \/ \E e \in 1..MaxManagers : migrations_SetGlobalManager(e)
  \/ \E u \in RegSeeders : seeders_Register(u)
  \/ seeders_NewSeederManager
  \/ \E e \in 1..MaxManagers : seeders_SetGlobalSeederManager(e)

\* a process that registers units, constructs engines and designates them
InitRegistering == InitReg /\ InitMigIdle /\ InitSeed /\ InitProd /\ InitAuth

\* the unit registries of the two packages
SpecReg == InitRegistering /\ [][NextReg]_vars

\* ---------------------------------------------------------------- products
ProductIDs == {1, 2}
UserIDs == {1, 2}
\* values of a product field; NotProvided is the nil pointer of an update request
FieldValues == {1, 2}
NotProvided == 0

\* a plausible bug: the ownership check is missing
IsOwnerAlways(existing, userID) == TRUE

\* existingProduct.CreatedBy == userID
IsOwner(existing, userID) == existing.createdBy = userID

\* UpdateProduct, lines 101-119: the fields the request provides
ApplyRequest(existing, req) ==
  [existing EXCEPT !.name = IF req.name # NotProvided THEN req.name ELSE @,
                   !.price = IF req.price # NotProvided THEN req.price ELSE @]

\* productUsecase.CreateProduct, lines 24-49
CreateProduct(id, req, userID) ==
  /\ id \notin DOMAIN products
  /\ pbefore' = products
  /\ \E createOk \in BOOLEAN, getOk \in BOOLEAN :
       IF ~createOk THEN
         /\ UNCHANGED products
         /\ pcalls' = <<>>
         /\ pres' = ProductResult("create", id, userID, "failed to create product", NoProduct)
       ELSE
         /\ products' = [i \in DOMAIN products \cup {id} |->
                           IF i = id THEN Product(userID, req.name, req.price) ELSE products[i]]
         /\ pcalls' = << <<"CreateProduct", id>> >>
         /\ pres' = IF getOk
                    THEN ProductResult("create", id, userID, "nil", products'[id])
                    ELSE ProductResult("create", id, userID, "failed to get created product",
                                       NoProduct)
  /\ UNCHANGED otherThanProd

\* productUsecase.UpdateProduct, lines 85-128
UpdateProduct(id, req, userID) ==
  /\ pbefore' = products
  /\ \E getOk \in BOOLEAN, saveOk \in BOOLEAN :
       IF ~getOk THEN
         /\ UNCHANGED products
         /\ pcalls' = <<>>
         /\ pres' = ProductResult("update", id, userID, "failed to get product", NoProduct)
       ELSE IF id \notin DOMAIN products THEN
         /\ UNCHANGED products
         /\ pcalls' = <<>>
         /\ pres' = ProductResult("update", id, userID, "product not found", NoProduct)
       ELSE IF ~IsOwner(products[id], userID) THEN
         /\ UNCHANGED products
         /\ pcalls' = <<>>
         /\ pres' = ProductResult("update", id, userID, "unauthorized", NoProduct)
       ELSE IF ~saveOk THEN
         /\ UNCHANGED products
         /\ pcalls' = << <<"UpdateProduct", id>> >>
         /\ pres' = ProductResult("update", id, userID, "failed to update product", NoProduct)
       ELSE
         /\ products' = [products EXCEPT ![id] = ApplyRequest(@, req)]
         /\ pcalls' = << <<"UpdateProduct", id>> >>
         /\ pres' = ProductResult("update", id, userID, "nil", products'[id])
  /\ UNCHANGED otherThanProd

\* productUsecase.DeleteProduct, lines 130-153
DeleteProduct(id, userID) ==
  /\ pbefore' = products
  /\ \E getOk \in BOOLEAN, deleteOk \in BOOLEAN :
       IF ~getOk THEN
         /\ UNCHANGED products
         /\ pcalls' = <<>>
         /\ pres' = ProductResult("delete", id, userID, "failed to get product", NoProduct)
       ELSE IF id \notin DOMAIN products THEN
         /\ UNCHANGED products
         /\ pcalls' = <<>>
         /\ pres' = ProductResult("delete", id, userID, "product not found", NoProduct)
       ELSE IF ~IsOwner(products[id], userID) THEN
         /\ UNCHANGED products
         /\ pcalls' = <<>>
         /\ pres' = ProductResult("delete", id, userID, "unauthorized", NoProduct)
       ELSE IF ~deleteOk THEN
         /\ UNCHANGED products
         /\ pcalls' = << <<"DeleteProduct", id>> >>
         /\ pres' = ProductResult("delete", id, userID, "failed to delete product", NoProduct)
       ELSE
         /\ products' = [i \in DOMAIN products \ {id} |-> products[i]]
         /\ pcalls' = << <<"DeleteProduct", id>> >>
         /\ pres' = ProductResult("delete", id, userID, "nil", NoProduct)
  /\ UNCHANGED otherThanProd

CreateRequests == [name : FieldValues, price : FieldValues]
UpdateRequests == [name : FieldValues \cup {NotProvided}, price : FieldValues \cup {NotProvided}]

NextProd ==
  \/ \E id \in ProductIDs, req \in CreateRequests, u \in UserIDs : CreateProduct(id, req, u)
  \/ \E id \in ProductIDs, req \in UpdateRequests, u \in UserIDs : UpdateProduct(id, req, u)
  \/ \E id \in ProductIDs, u \in UserIDs : DeleteProduct(id, u)

\* a process that serves product requests
InitProducts == InitProd /\ InitMigIdle /\ InitSeed /\ InitReg /\ InitAuth

\* the product usecase over its repository
SpecProd == InitProducts /\ [][NextProd]_vars

\* -------------------------------------------------------------------- auth
Emails == {1, 2}
Usernames == {1, 2}
RegisterRequests == [email : Emails, username : Usernames]

\* entity.User: the two unique columns and is_active
User(email, username) == [email |-> email, username |-> username, isActive |-> TRUE]

\* a plausible bug: the lookup result is not checked
UserFoundNever(found) == FALSE

\* if existingUser != nil
UserFound(found) == found # {}

\* authRepository.GetUserByEmail: Where("email = ? AND is_active = ?", email, true)
GetUserByEmail(table, email) ==
  {i \in 1..Len(table) : table[i].email = email /\ table[i].isActive}

\* authRepository.GetUserByUsername
GetUserByUsername(table, username) ==
  {i \in 1..Len(table) : table[i].username = username /\ table[i].isActive}

\* the UNIQUE constraints of users.email and users.username accept the row
UniqueAccepts(table, row) ==
  \A i \in 1..Len(table) : table[i].email # row.email /\ table[i].username # row.username

\* Register, lines 32-41: the lookup by email
RegisterCheckEmail(p, req) ==
  /\ apc[p] = "idle"
  /\ areq' = Upd(areq, p, req)
  /\ acalls' = Upd(acalls, p, << <<"GetUserByEmail", req.email>> >>)
  /\ \E lookupOk \in BOOLEAN :
       IF ~lookupOk THEN
         /\ afound' = Upd(afound, p, [email |-> "error", username |-> "none"])
         /\ apc' = Upd(apc, p, "done")
         /\ ares' = Upd(ares, p, [NoAuthResponse EXCEPT !.err = "failed to check existing user"])
       ELSE IF UserFound(GetUserByEmail(users, req.email)) THEN
         /\ afound' = Upd(afound, p, [email |-> "found", username |-> "none"])
         /\ apc' = Upd(apc, p, "done")
         /\ ares' = Upd(ares, p, [NoAuthResponse EXCEPT !.err = "user with email already exists"])
       ELSE
         /\ afound' = Upd(afound, p,
                          [email |-> IF \E i \in 1..Len(users) : users[i].email = req.email
                                     THEN "hidden" ELSE "absent",
                           username |-> "none"])
         /\ apc' = Upd(apc, p, "check_username")
         /\ ares' = Upd(ares, p, NoAuthResponse)
  /\ UNCHANGED users
  /\ UNCHANGED otherThanAuth

\* Register, lines 43-51: the lookup by username
RegisterCheckUsername(p) ==
  /\ apc[p] = "check_username"
  /\ acalls' = Upd(acalls, p, Append(acalls[p], <<"GetUserByUsername", areq[p].username>>))
  /\ \E lookupOk \in BOOLEAN :
       IF ~lookupOk THEN
         /\ afound' = Upd(afound, p, [afound[p] EXCEPT !.username = "error"])
         /\ apc' = Upd(apc, p, "done")
         /\ ares' = Upd(ares, p, [NoAuthResponse EXCEPT !.err = "failed to check existing user"])
       ELSE IF UserFound(GetUserByUsername(users, areq[p].username)) THEN
         /\ afound' = Upd(afound, p, [afound[p] EXCEPT !.username = "found"])
         /\ apc' = Upd(apc, p, "done")
         /\ ares' = Upd(ares, p, [NoAuthResponse EXCEPT !.err = "user with username already exists"])
       ELSE
         /\ afound' = Upd(afound, p,
                          [afound[p] EXCEPT !.username =
                             IF \E i \in 1..Len(users) : users[i].username = areq[p].username
                             THEN "hidden" ELSE "absent"])
         /\ apc' = Upd(apc, p, "create")
         /\ UNCHANGED ares
  /\ UNCHANGED <<users, areq>>
  /\ UNCHANGED otherThanAuth

\* Register, lines 53-87: hash the password, CreateUser, generate the token
RegisterCreate(p) ==
  /\ apc[p] = "create"
  /\ apc' = Upd(apc, p, "done")
  /\ \E hashOk \in BOOLEAN, createOk \in BOOLEAN, tokenOk \in BOOLEAN :
       LET row == User(areq[p].email, areq[p].username) IN
       IF ~hashOk THEN
         /\ ares' = Upd(ares, p, [NoAuthResponse EXCEPT !.err = "failed to hash password"])
         /\ UNCHANGED <<users, acalls>>
       ELSE IF ~createOk \/ ~UniqueAccepts(users, row) THEN
         /\ acalls' = Upd(acalls, p, Append(acalls[p], <<"CreateUser", areq[p].email>>))
         /\ ares' = Upd(ares, p, [NoAuthResponse EXCEPT !.err = "failed to create user"])
         /\ UNCHANGED users
       ELSE
         /\ acalls' = Upd(acalls, p, Append(acalls[p], <<"CreateUser", areq[p].email>>))
         /\ users' = Append(users, row)
         /\ ares' = Upd(ares, p,
                        IF tokenOk
                        THEN [err |-> "nil", user |-> areq[p], token |-> TRUE]
                        ELSE [NoAuthResponse EXCEPT !.err = "failed to generate token"])
  /\ UNCHANGED <<areq, afound>>
  /\ UNCHANGED otherThanAuth

\* Register has returned to the handler
RegisterReturn(p) ==
  /\ apc[p] = "done"
  /\ apc' = Upd(apc, p, "idle")
  /\ areq' = Upd(areq, p, NoRequest)
  /\ afound' = Upd(afound, p, NoLookups)
  /\ acalls' = Upd(acalls, p, <<>>)
  /\ ares' = Upd(ares, p, NoAuthResponse)
  /\ UNCHANGED users
  /\ UNCHANGED otherThanAuth

NextAuth ==
  \/ \E p \in AuthProcs, req \in RegisterRequests : RegisterCheckEmail(p, req)
  \/ \E p \in AuthProcs : RegisterCheckUsername(p)
  \/ \E p \in AuthProcs : RegisterCreate(p)
  \/ \E p \in AuthProcs : RegisterReturn(p)

\* a server that registers users
InitRegisteringUsers == InitAuth /\ InitMigIdle /\ InitSeed /\ InitReg /\ InitProd

\* the auth usecase over its repository
SpecAuth == InitRegisteringUsers /\ [][NextAuth]_vars

\* ---------------------------------------------------------- specifications
Counts == -1..MaxCount

Next ==
  \/ \E regs \in RegLists : NewMigrationManager(regs)
  \/ \E v \in Versions : Register(Unit(v))
  \/ \E p \in SeqProcs : RunMigrationsBegin(p)
  \/ \E p \in SeqProcs : RunLoop(p)
  \/ \E p \in SeqProcs : RunUp(p)
  \/ \E p \in SeqProcs : RunCreate(p)
  \/ \E p \in SeqProcs : RunCommit(p)
  \/ \E p \in SeqProcs, count \in Counts : RollbackMigrationsBegin(p, count)
  \/ \E p \in SeqProcs : RollbackLoop(p)
  \/ \E p \in SeqProcs : RollbackDown(p)
  \/ \E p \in SeqProcs : RollbackDelete(p)
  \/ \E p \in SeqProcs : RollbackCommit(p)
  \/ \E p \in SeqProcs : GetMigrationStatus(p)
  \/ \E p \in SeqProcs : Return(p)

\* the migration engine, one invocation at a time
Init == InitMig /\ InitSeed /\ InitReg /\ InitProd /\ InitAuth

Spec == Init /\ [][Next]_vars

\* the calls of one process over the registry its init() functions built
NextFixed ==
  \/ \E p \in SeqProcs : RunMigrationsBegin(p)
  \/ \E p \in SeqProcs : RunLoop(p)
  \/ \E p \in SeqProcs : RunUp(p)
  \/ \E p \in SeqProcs : RunCreate(p)
  \/ \E p \in SeqProcs : RunCommit(p)
  \/ \E p \in SeqProcs, count \in Counts : RollbackMigrationsBegin(p, count)
  \/ \E p \in SeqProcs : RollbackLoop(p)
  \/ \E p \in SeqProcs : RollbackDown(p)
  \/ \E p \in SeqProcs : RollbackDelete(p)
  \/ \E p \in SeqProcs : RollbackCommit(p)
  \/ \E p \in SeqProcs : GetMigrationStatus(p)
  \/ \E p \in SeqProcs : Return(p)

\* two invocations of RunMigrations, of two processes that built the same
\* registry, against one database
NextConcurrent ==
  \/ \E p \in AllProcs : RunMigrationsBegin(p)
  \/ \E p \in AllProcs : RunLoop(p)
  \/ \E p \in AllProcs : RunUp(p)
  \/ \E p \in AllProcs : RunCreate(p)
  \/ \E p \in AllProcs : RunCommit(p)
  \/ \E p \in AllProcs : Return(p)

InitConcurrent == InitMig /\ InitSeed /\ InitReg /\ InitProd /\ InitAuth

\* RunMigrations invoked concurrently
SpecConcurrent == InitConcurrent /\ [][NextConcurrent]_vars

InitFixed == InitMig /\ InitSeed /\ InitReg /\ InitProd /\ InitAuth

\* the migration engine with a registry that never changes
SpecFixed == InitFixed /\ [][NextFixed]_vars

\* ------------------------------------------------------- migration claims
\* the second components of the events of kind k, in order
Calls(t, k) ==
  LET f == SelectSeq(t, LAMBDA e : e[1] = k) IN [i \in 1..Len(f) |-> f[i][2]]

IsStrictlyAscending(s) == \A i \in 1..(Len(s) - 1) : LexLess(s[i], s[i + 1])

\* the applied_at of version v in ledger l (0 when v has no row)
AppliedAt(l, v) == IF \E r \in l : r.version = v
                   THEN (CHOOSE r \in l : r.version = v).applied_at ELSE 0

\* C1: in every reachable state, failures included, a version has a ledger
\* record exactly when the effect of its up is committed.
C1_LedgerMatchesSchema == AppliedVersions(ledger) = schema

\* C1 witness: a step failed at commit after its up and insert had succeeded,
\* while an earlier migration stays recorded.
C1_Witness ==
  \E p \in AllProcs :
    /\ pc[p] = "done"
    /\ result[p].cause = "failed to commit migration"
    /\ ledger # {}

\* C2: up is never invoked for a version recorded in the ledger when the run
\* started, and a RunMigrations that directly follows a successful RunMigrations
\* on the same registry invokes no up, counts zero pending migrations and leaves
\* the ledger as the first run left it.
C2_ApplyIdempotent ==
  \A p \in AllProcs :
    op[p].name = "run" =>
      /\ \A v \in SeqToSet(Calls(trace[p], "up")) : v \notin AppliedVersions(startLedger[p])
      /\ prevRunOk =>
           /\ Calls(trace[p], "up") = <<>>
           /\ pendingCount[p] = 0
           /\ ledger = startLedger[p]

\* C2 witness: a second successful run in a row over a non-empty ledger.
C2_Witness ==
  \E p \in AllProcs :
    /\ pc[p] = "done" /\ op[p].name = "run" /\ result[p] = Nil
    /\ prevRunOk
    /\ ledger # {}

\* C3: within one RunMigrations the ups are invoked in strictly ascending
\* lexicographic version order, each only after the previous one's transaction
\* was committed, and a successful run has invoked exactly the pending versions.
C3_AscendingVersionOrder ==
  \A p \in AllProcs :
    op[p].name = "run" =>
      LET ups == Calls(trace[p], "up") IN
      /\ IsStrictlyAscending(ups)
      /\ \A i \in 1..(Len(ups) - 1) : ups[i] \in SeqToSet(Calls(trace[p], "commit"))
      /\ (pc[p] = "done" /\ result[p] = Nil) =>
           SeqToSet(ups) = Pending(migrations, startLedger[p])

\* C3 witness: the run of the example, a ("10"), c ("15"), b ("20").
C3_Witness ==
  \E p \in AllProcs :
    /\ pc[p] = "done" /\ op[p].name = "run" /\ result[p] = Nil
    /\ Calls(trace[p], "up") = << <<1, 0>>, <<1, 5>>, <<2, 0>> >>

\* C4: when the k-th pending migration fails in up, the run ends there: the
\* ledger is the start ledger plus the pending versions below the failed one,
\* the failed and the later pending versions have no record and no committed
\* effect, the later ones were never attempted, and the error names the failed
\* version.
C4_PartialBatch ==
  \A p \in AllProcs :
    (op[p].name = "run" /\ result[p].cause = "migration failed") =>
      LET pend == Pending(migrations, startLedger[p])
          failed == result[p].version
          before == {v \in pend : LexLess(v, failed)}
          after == {v \in pend : LexLess(failed, v)}
      IN
      /\ pc[p] = "done"
      /\ failed \in pend
      /\ startLedger[p] \subseteq ledger
      /\ AppliedVersions(ledger) = AppliedVersions(startLedger[p]) \cup before
      /\ \A v \in {failed} \cup after : v \notin schema
      /\ SeqToSet(Calls(trace[p], "up")) = before \cup {failed}
      /\ SeqToSet(Calls(trace[p], "begin")) = before \cup {failed}

\* C4 witness: migration 2 of 3 pending failed in up.
C4_Witness ==
  \E p \in AllProcs :
    /\ pc[p] = "done" /\ op[p].name = "run"
    /\ result[p] = Err("migration failed", <<1, 5>>, "migration failed")
    /\ startLedger[p] = {}
    /\ DOMAIN migrations = Versions
    /\ AppliedVersions(ledger) = {<<1, 0>>}

\* C5: a successful RollbackMigrations(n), n >= 1, over at least n records
\* removes exactly n records, each applied no earlier than every record it
\* keeps, invokes their downs newest first, and leaves the other records as
\* they were.
C5_RollbackNewestFirst ==
  \A p \in AllProcs :
    (pc[p] = "done" /\ op[p].name = "rollback" /\ result[p] = Nil
       /\ op[p].count >= 1 /\ Cardinality(startLedger[p]) >= op[p].count) =>
      LET removed == startLedger[p] \ ledger
          downs == Calls(trace[p], "down")
      IN
      /\ ledger \subseteq startLedger[p]
      /\ Cardinality(removed) = op[p].count
      /\ \A r \in removed, k \in ledger : r.applied_at >= k.applied_at
      /\ Len(downs) = op[p].count
      /\ SeqToSet(downs) = AppliedVersions(removed)
      /\ \A i \in 1..(Len(downs) - 1) :
           AppliedAt(startLedger[p], downs[i]) >= AppliedAt(startLedger[p], downs[i + 1])

\* C5 witness: two of three records rolled back, and a removed version sorts
\* below a version that stays.
C5_Witness ==
  \E p \in AllProcs :
    /\ pc[p] = "done" /\ op[p].name = "rollback" /\ result[p] = Nil
    /\ op[p].count = 2
    /\ Cardinality(startLedger[p] \ ledger) = 2
    /\ \E r \in startLedger[p] \ ledger, k \in ledger : LexLess(r.version, k.version)

C7_NonPositiveCountRejected ==
  \A p \in AllProcs :
    (op[p].name = "rollback" /\ op[p].count <= 0) =>
      /\ pc[p] = "done"
      /\ result[p] = Err("rollback count must be greater than 0", NoVersion, "usage")
      /\ trace[p] = <<>>
      /\ tx[p] = NoTx
      /\ ledger = startLedger[p]
      /\ schema = startSchema[p]

\* C7 witness: a rollback of count 0 over a non-empty ledger has returned.
C7_Witness ==
  \E p \in AllProcs :
    /\ pc[p] = "done" /\ op[p].name = "rollback" /\ op[p].count = 0
    /\ ledger # {}

\* ---------------------------------------------------------- seeder claims
\* the registry as the resolution sees it
SMap == SeederMap(seeders)

DirectDeps(n) == IF n \in DOMAIN SMap THEN SeqToSet(SMap[n].deps) ELSE {}

RECURSIVE DepClosure(_)
DepClosure(S) ==
  LET N == S \cup UNION {DirectDeps(n) : n \in S} IN
  IF N = S THEN S ELSE DepClosure(N)

\* every name n depends on, directly or not
TransDeps(n) == DepClosure(DirectDeps(n))

\* the target and everything it transitively requires
ClosureOf(n) == {n} \cup TransDeps(n)

HasCycleIn(S) == \E n \in S : n \in TransDeps(n)

AllDepsRegistered(S) == \A n \in S : DirectDeps(n) \subseteq DOMAIN SMap

Resolving == spc \in {"running", "done"} /\ seeders # <<>>
RunAllMode == Resolving /\ sop.target = NoName
TargetMode == Resolving /\ sop.target \in DOMAIN SMap

RootCause(e) == IF e.msgs = <<>> THEN "nil" ELSE e.msgs[Len(e.msgs)]
IsCycleError(e) == RootCause(e) \in {"circular dependency detected in seeders",
                                     "circular dependency detected involving"}
IsMissingError(e) == RootCause(e) \in {"depends on but not found", "seeder not found"}

\* every seeder of the order comes strictly after all it transitively depends on
TopoValid(order) ==
  \A i \in 1..Len(order) :
    \A d \in TransDeps(order[i].name) : \E j \in 1..(i - 1) : order[j].name = d

\* C8: over an acyclic graph whose dependencies are all registered, run-all
\* (Kahn) and target (DFS) resolution return an order, and every order returned
\* places each seeder strictly after all its transitive dependencies, whatever
\* the map iteration order.
C8_TopologicalValidity ==
  /\ (Resolving /\ toRun # <<>>) => TopoValid(toRun)
  /\ (RunAllMode \/ TargetMode) =>
       ((~HasCycleIn(DOMAIN SMap) /\ AllDepsRegistered(DOMAIN SMap)) => toRun # <<>>)

\* C8 witness: run-all resolved a chain of three seeders.
C8_Witness ==
  /\ RunAllMode
  /\ Len(toRun) = 3
  /\ \E i \in 1..3 : Cardinality(TransDeps(toRun[i].name)) = 2

\* C9 as stated: with a cycle in the graph (resp. in the target's closure) the
\* call fails with a cycle error and no Run is invoked.
C9_CycleAlwaysCycleError ==
  /\ (RunAllMode /\ HasCycleIn(DOMAIN SMap)) =>
       (spc = "done" /\ IsCycleError(sresult) /\ runLog = <<>>)
  /\ (TargetMode /\ HasCycleIn(ClosureOf(sop.target))) =>
       (spc = "done" /\ IsCycleError(sresult) /\ runLog = <<>>)

\* C9 amended: with a cycle in the graph (resp. in the target's closure) the
\* call fails before any Run; the error is the cycle error when every declared
\* dependency (resp. every name of the closure) is registered, and otherwise the
\* cycle error or the missing-dependency error.
C9_CycleDetected ==
  /\ (RunAllMode /\ HasCycleIn(DOMAIN SMap)) =>
       /\ spc = "done" /\ runLog = <<>> /\ toRun = <<>>
       /\ IF AllDepsRegistered(DOMAIN SMap)
          THEN IsCycleError(sresult)
          ELSE RootCause(sresult) = "depends on but not found"
  /\ (TargetMode /\ HasCycleIn(ClosureOf(sop.target))) =>
       /\ spc = "done" /\ runLog = <<>> /\ toRun = <<>>
       /\ IsCycleError(sresult) \/ RootCause(sresult) = "seeder not found"
       /\ ClosureOf(sop.target) \subseteq DOMAIN SMap => IsCycleError(sresult)

\* C9 witness: two seeders that depend on each other, resolved for one of them.
C9_Witness ==
  /\ TargetMode /\ spc = "done"
  /\ \E n \in DOMAIN SMap \ {sop.target} :
       n \in DirectDeps(sop.target) /\ sop.target \in DirectDeps(n)
  /\ IsCycleError(sresult)

\* a declared dependency of a seeder of S that is not registered, named with
\* its dependent by the error e
NamesDependentAndMissing(e, S) ==
  \E d \in S \cap DOMAIN SMap : \E m \in DirectDeps(d) \ DOMAIN SMap :
    {d, m} \subseteq SeqToSet(e.names)

\* C10 as stated, in its plainest case (no cycle anywhere): with an unregistered
\* dependency declared in the graph (resp. in the target's closure) the call
\* fails before any Run with an error that names both the dependent and the
\* missing name.
C10_MissingNamesBoth ==
  /\ (RunAllMode /\ ~AllDepsRegistered(DOMAIN SMap) /\ ~HasCycleIn(DOMAIN SMap)) =>
       /\ spc = "done" /\ runLog = <<>>
       /\ IsMissingError(sresult)
       /\ NamesDependentAndMissing(sresult, DOMAIN SMap)
  /\ (TargetMode /\ ~AllDepsRegistered(ClosureOf(sop.target)) /\ ~HasCycleIn(DOMAIN SMap)) =>
       /\ spc = "done" /\ runLog = <<>>
       /\ IsMissingError(sresult)
       /\ NamesDependentAndMissing(sresult, ClosureOf(sop.target))

NamesOf(order) == [i \in 1..Len(order) |-> order[i].name]

C12_RunAfterDependencies ==
  /\ \A i \in 1..Len(runLog) :
       \A d \in DirectDeps(runLog[i]) :
         \E j \in 1..(i - 1) : runLog[j] = d /\ j < sidx
  /\ \A i, j \in 1..Len(runLog) : runLog[i] = runLog[j] => i = j

\* C12 witness: RunSeeders has run three seeders with success, one of them
\* after the two it depends on.
C12_Witness ==
  /\ sop.entry = "RunSeeders" /\ spc = "done" /\ sresult = NoErr
  /\ Len(runLog) = 3
  /\ \E i \in 1..3 : Cardinality(DirectDeps(runLog[i])) = 2

\* the call has returned the failure of a seeder's Run
RunFailed == RootCause(sresult) = "run"

\* C13: when a seeder's Run fails the call ends with an error naming that
\* seeder, no seeder later in the resolved order is run, and the tables of the
\* seeders that ran before it keep what those runs left in them.
C13_RunFailureAborts ==
  RunFailed =>
    /\ spc = "done"
    /\ sidx \in 1..Len(toRun)
    /\ toRun[sidx].name \in SeqToSet(sresult.names)
    /\ runLog = NamesOf(SubSeq(toRun, 1, sidx))
    /\ \A j \in 1..(sidx - 1) :
         seeded[toRun[j].name] =
           IF startSeeded[toRun[j].name] = "empty" THEN "full"
           ELSE startSeeded[toRun[j].name]

\* C13 witness: the second of three seeders failed after the first had filled
\* its table.
C13_Witness ==
  /\ RunFailed
  /\ Len(toRun) = 3 /\ sidx = 2
  /\ startSeeded[toRun[1].name] = "empty" /\ seeded[toRun[1].name] = "full"

\* C14: a GetMigrationStatus that returns nil has listed every registered
\* version exactly once in ascending version order, marked applied exactly
\* when the ledger holds a record of that version, and its applied and pending
\* counts add up to the number of registered versions, whatever else the
\* ledger holds.
C14_StatusComplete ==
  \A p \in AllProcs :
    (op[p].name = "status" /\ result[p] = Nil) =>
      LET r == report[p]
          listed == [i \in 1..Len(r.lines) |-> r.lines[i].version]
      IN
      /\ SeqToSet(listed) = DOMAIN migrations
      /\ Len(listed) = Cardinality(DOMAIN migrations)
      /\ IsStrictlyAscending(listed)
      /\ \A i \in 1..Len(r.lines) :
           r.lines[i].applied <=> (r.lines[i].version \in AppliedVersions(ledger))
      /\ r.applied = Cardinality(DOMAIN migrations \cap AppliedVersions(ledger))
      /\ r.pending = Cardinality(DOMAIN migrations \ AppliedVersions(ledger))
      /\ r.applied + r.pending = Cardinality(DOMAIN migrations)
      /\ r.total = Cardinality(DOMAIN migrations)
      /\ ledger = startLedger[p] /\ schema = startSchema[p]

\* C14 witness: a status over one applied and one pending registered version
\* while the ledger also holds a record of an unregistered version.
C14_Witness ==
  \E p \in AllProcs :
    /\ op[p].name = "status" /\ result[p] = Nil
    /\ report[p].applied = 1 /\ report[p].pending = 1
    /\ AppliedVersions(ledger) \ DOMAIN migrations # {}

\* the causes with which a single apply step or rollback step fails once its
\* transaction is open
StepFailures == {"migration failed", "failed to record migration",
                 "failed to commit migration", "rollback failed",
                 "failed to remove migration record", "failed to commit rollback"}

\* C17 as stated: on every failure path of a single apply or rollback step (up
\* or down fails, the ledger insert or delete fails, the commit fails) the
\* step's transaction has been rolled back when the error reaches the caller.
C17_FailureRollsBack ==
  \A p \in AllProcs :
    (pc[p] = "done" /\ result[p].cause \in StepFailures) =>
      tx[p].status = "rolledback"

\* C18 as stated: each seeder runs in its own transaction scope, so that when a
\* Run fails after some of its writes none of them remains in its table, while
\* the tables of the seeders that completed earlier in the batch keep theirs.
C18_FailedSeederUndone ==
  RunFailed =>
    /\ sidx \in 1..Len(toRun)
    /\ seeded[toRun[sidx].name] = startSeeded[toRun[sidx].name]
    /\ \A j \in 1..(sidx - 1) : seeded[toRun[j].name] # "empty"

\* C19, migration half: a RunMigrations that returns nil, whatever failed
\* before it, has applied exactly the versions that had no ledger record when
\* it started, in ascending order, and leaves every registered version applied.
C19_MigrationsResume ==
  \A p \in AllProcs :
    (pc[p] = "done" /\ op[p].name = "run" /\ result[p] = Nil) =>
      /\ SeqToSet(Calls(trace[p], "up")) = DOMAIN migrations \ AppliedVersions(startLedger[p])
      /\ IsStrictlyAscending(Calls(trace[p], "up"))
      /\ DOMAIN migrations \subseteq AppliedVersions(ledger)
      /\ startLedger[p] \subseteq ledger

\* C19 as stated, seeder half: a seeding call that returns nil, whatever failed
\* before it, leaves the table of every seeder it ran fully populated.
C19_SeedersResume ==
  (Resolving /\ spc = "done" /\ sresult = NoErr) =>
    \A i \in 1..Len(toRun) : seeded[toRun[i].name] = "full"

\* ------------------------------------------------------ registration claims
\* C15 as stated: whatever the interleaving of register, construct and
\* designate, every unit passed to register is in the registry of the engine
\* designated as current.
C15_RegisteredUnitsInCurrentEngine ==
  /\ globalManager # 0 =>
       \A i \in 1..Len(registeredMigrations) :
         registeredMigrations[i].version \in DOMAIN managers[globalManager]
  /\ globalSeederManager # 0 =>
       \A i \in 1..Len(registeredSeeders) :
         registeredSeeders[i] \in SeqToSet(seederManagers[globalSeederManager])

\* C16 as stated, for seeders: when registrations share a name, resolution and
\* run use the last-registered seeder of each name, at most once, and an
\* earlier-registered seeder of the same name has no influence: in particular
\* its declared dependencies do not decide whether resolution succeeds.
C16_LastRegistrationWins ==
  /\ \A i \in 1..Len(toRun) : toRun[i] = SMap[toRun[i].name]
  /\ \A i, j \in 1..Len(toRun) : toRun[i].name = toRun[j].name => i = j
  /\ \A i, j \in 1..Len(runLog) : runLog[i] = runLog[j] => i = j
  /\ ((RunAllMode \/ TargetMode)
        /\ ~HasCycleIn(DOMAIN SMap) /\ AllDepsRegistered(DOMAIN SMap)) =>
       toRun # <<>>

\* ----------------------------------------------------------- product claims
\* C20: UpdateProduct and DeleteProduct called by a user who is not the
\* product's creator return the unauthorized error and no product, make no
\* repository write and leave the stored products as they were; a stored
\* product changes or disappears only in an operation of its creator.
C20_OnlyOwnerModifies ==
  /\ (pres.op \in {"update", "delete"} /\ pres.id \in DOMAIN pbefore
        /\ pbefore[pres.id].createdBy # pres.user
        /\ pres.err # "failed to get product") =>
       /\ pres.err = "unauthorized"
       /\ pres.product = NoProduct
       /\ pcalls = <<>>
       /\ products = pbefore
  /\ \A id \in DOMAIN pbefore :
       (id \notin DOMAIN products \/ products[id] # pbefore[id]) =>
         pres.user = pbefore[id].createdBy

\* C20 witness: an update by a user other than the creator was refused.
C20_Witness ==
  /\ pres.op = "update" /\ pres.err = "unauthorized"
  /\ pres.id \in DOMAIN products
  /\ products[pres.id].createdBy # pres.user

\* -------------------------------------------------------------- auth claims
\* the repository calls of kind k among cs
CallsTo(cs, k) == SelectSeq(cs, LAMBDA c : c[1] = k)

\* C21: a Register whose lookup finds the email, or else the username, with an
\* existing user returns the matching already-exists error and no response,
\* without calling CreateUser or issuing a token; and at all times no two rows
\* of the users table share an email or a username.
C21_DuplicateRejected ==
  /\ \A p \in AuthProcs :
       /\ afound[p].email = "found" =>
            /\ apc[p] = "done"
            /\ ares[p] = [NoAuthResponse EXCEPT !.err = "user with email already exists"]
            /\ CallsTo(acalls[p], "CreateUser") = <<>>
            /\ CallsTo(acalls[p], "GetUserByUsername") = <<>>
       /\ afound[p].username = "found" =>
            /\ apc[p] = "done"
            /\ ares[p] = [NoAuthResponse EXCEPT !.err = "user with username already exists"]
            /\ CallsTo(acalls[p], "CreateUser") = <<>>
       \* a stored user is never missed by a lookup: every row is active
       /\ afound[p].email # "hidden" /\ afound[p].username # "hidden"
  /\ \A i, j \in 1..Len(users) :
       (users[i].email = users[j].email \/ users[i].username = users[j].username) => i = j

\* C21 witness: a request with a new email and the username of an existing user
\* was refused while another user is stored too.
C21_Witness ==
  \E p \in AuthProcs :
    /\ apc[p] = "done"
    /\ afound[p] = [email |-> "absent", username |-> "found"]
    /\ Len(users) = 2

\* ------------------------------------------------- migration claims, again
\* the records a rollback selected before position k
RolledBackBefore(recs, k) == {recs[i] : i \in 1..(k - 1)}

\* C22: when RollbackMigrations meets a selected record whose version has no
\* registered migration it returns at once with an error naming that version:
\* no transaction and no down for it, the downs invoked are those of the
\* records selected before it, and the ledger is the start ledger without
\* exactly those newer records.
C22_UnregisteredRollbackAborts ==
  \A p \in AllProcs :
    result[p].cause = "registry" =>
      LET recs == appliedRecords[p]
          k == idx[p]
      IN
      /\ pc[p] = "done" /\ op[p].name = "rollback"
      /\ k \in 1..Len(recs)
      /\ result[p].version = recs[k].version
      /\ recs[k].version \notin DOMAIN migrations
      /\ Calls(trace[p], "down") = [i \in 1..(k - 1) |-> recs[i].version]
      /\ Calls(trace[p], "begin") = [i \in 1..(k - 1) |-> recs[i].version]
      /\ ledger = startLedger[p] \ RolledBackBefore(recs, k)
      /\ recs[k] \in ledger
      /\ \A r \in startLedger[p] : r.applied_at < recs[k].applied_at => r \in ledger
      /\ schema = startSchema[p] \ AppliedVersions(RolledBackBefore(recs, k))

\* C22 witness: the newest record was rolled back, the next one's version is
\* not registered, and an older record stays.
C22_Witness ==
  \E p \in AllProcs :
    /\ result[p].cause = "registry"
    /\ idx[p] = 2
    /\ Cardinality(ledger) = 2
    /\ Cardinality(startLedger[p]) = 3

IsAppliedIn(l, v) == v \in AppliedVersions(l)

\* the step commits the apply of version v
ApplyStepSucceeds(p, v) ==
  /\ pc[p] = "run_commit" /\ pc'[p] = "run_loop"
  /\ versions[p][idx[p]] = v

\* the step commits the rollback of version v
RollbackStepSucceeds(p, v) ==
  /\ pc[p] = "rb_commit" /\ pc'[p] = "rb_loop"
  /\ appliedRecords[p][idx[p]].version = v

\* the step ends an apply or rollback step of process p in failure
StepFails(p) ==
  /\ pc[p] \in {"run_loop", "run_up", "run_create", "run_commit",
                "rb_loop", "rb_down", "rb_delete", "rb_commit"}
  /\ pc'[p] = "done" /\ result'[p] # Nil

\* C23: a version is Pending (no ledger record) or Applied (one record, which
\* holds a version and an applied_at and nothing else); it goes from Pending to
\* Applied exactly in the commit of its apply step and from Applied to Pending
\* exactly in the commit of its rollback step, and a step that fails leaves
\* every version's state, the ledger and the schema as they were.
C23_PerMigrationStateMachine ==
  [][/\ \A v \in Versions :
          /\ Cardinality({r \in ledger' : r.version = v}) <= 1
          /\ (~IsAppliedIn(ledger, v) /\ IsAppliedIn(ledger', v)) =>
               \E p \in AllProcs : ApplyStepSucceeds(p, v)
          /\ (IsAppliedIn(ledger, v) /\ ~IsAppliedIn(ledger', v)) =>
               \E p \in AllProcs : RollbackStepSucceeds(p, v)
          /\ \A p \in AllProcs :
               /\ ApplyStepSucceeds(p, v) =>
                    (~IsAppliedIn(ledger, v) /\ IsAppliedIn(ledger', v))
               /\ RollbackStepSucceeds(p, v) =>
                    (IsAppliedIn(ledger, v) /\ ~IsAppliedIn(ledger', v))
     /\ \A r \in ledger' : DOMAIN r = {"version", "applied_at"}
     /\ (\E p \in AllProcs : StepFails(p)) => (ledger' = ledger /\ schema' = schema)
    ]_vars

\* C23 witness: within one rollback call a version went back to Pending and
\* the down of the next failed, which stays Applied.
C23_Witness ==
  \E p \in AllProcs :
    /\ pc[p] = "done" /\ op[p].name = "rollback"
    /\ result[p].cause = "rollback failed"
    /\ idx[p] = 2
    /\ IsAppliedIn(ledger, result[p].version)
    /\ ~IsAppliedIn(ledger, appliedRecords[p][1].version)

\* ----------------------------------------------------- seeder claims, again
\* C24: in run-all mode over a registry whose declared dependencies are all
\* registered, resolution fails with the cycle error exactly when the graph has
\* a cycle, and otherwise returns every registered seeder exactly once, also
\* when a seeder declares the same dependency twice.
C24_KahnExact ==
  (RunAllMode /\ AllDepsRegistered(DOMAIN SMap)) =>
    /\ IsCycleError(sresult) <=> HasCycleIn(DOMAIN SMap)
    /\ HasCycleIn(DOMAIN SMap) => (toRun = <<>> /\ spc = "done" /\ runLog = <<>>)
    /\ ~HasCycleIn(DOMAIN SMap) =>
         /\ SeqToSet(NamesOf(toRun)) = DOMAIN SMap
         /\ Len(toRun) = Cardinality(DOMAIN SMap)
         /\ \A i \in 1..Len(toRun) : toRun[i] = SMap[toRun[i].name]

\* C24 witness: run-all resolved two seeders, one of which declares the other
\* twice.
C24_Witness ==
  /\ RunAllMode /\ sresult = NoErr
  /\ Len(toRun) = 2
  /\ toRun[2].deps = <<toRun[1].name, toRun[1].name>>

\* the registered names that lie on a dependency cycle
OnCycle == {n \in DOMAIN SMap : n \in TransDeps(n)}

\* the target half of C25: the cycle error of a target-scoped resolution names
\* a seeder of the target's closure that lies on a cycle
TargetCycleErrorNamesNode ==
  (TargetMode /\ IsCycleError(sresult)) =>
    /\ sresult.names # <<>>
    /\ sresult.names[Len(sresult.names)] \in OnCycle \cap ClosureOf(sop.target)

\* C25 as stated: a cycle error names the offending identities, in target mode
\* the seeder found in progress on the current path and in run-all mode the
\* seeders involved in the cycle.
C25_CycleErrorNamesOffenders ==
  /\ TargetCycleErrorNamesNode
  /\ (RunAllMode /\ IsCycleError(sresult)) =>
       \E n \in SeqToSet(sresult.names) : n \in OnCycle

\* ------------------------------------------------------- ledger order claims
\* the registered versions in ascending order
SortedRegistry == SortStrings(CHOOSE o \in Perms(DOMAIN migrations) : TRUE)

\* C26: with a registry that never changes, a ledger that starts empty and
\* sequential RunMigrations and RollbackMigrations calls, aborted or not, the
\* applied versions are at all times the first versions of the sorted registry,
\* and a record is older than another exactly when its version is smaller.
C26_AppliedIsPrefix ==
  /\ AppliedVersions(ledger) = {SortedRegistry[i] : i \in 1..Cardinality(ledger)}
  /\ \A r1, r2 \in ledger :
       LexLess(r1.version, r2.version) <=> r1.applied_at < r2.applied_at

\* C26 witness: a run has applied a version again after an earlier call had
\* rolled it back or failed to record it, and two versions are applied.
C26_Witness ==
  \E p \in AllProcs :
    /\ pc[p] = "done" /\ op[p].name = "run" /\ result[p] = Nil
    /\ Cardinality(ledger) >= 2
    /\ \E r \in ledger : r.applied_at > Cardinality(ledger)

\* --------------------------------------------------------- concurrency claims
\* process p commits the apply of the version it is at
CommitsApply(p) == pc[p] = "run_commit" /\ pc'[p] = "run_loop"

\* process p attempts the insert of a version that another invocation has
\* recorded since p read the ledger
LosesRace(p) ==
  /\ pc[p] = "run_create" /\ pc'[p] # "run_create"
  /\ IsAppliedIn(ledger, versions[p][idx[p]])

\* C27: when RunMigrations invocations interleave on one database no version
\* ever has more than one ledger record, no apply commits for a version whose
\* up effect or record is already committed, and the invocation that comes
\* second on a version fails at the insert of the record, its transaction
\* rolled back, the ledger and the schema left as they were.
C27_ConcurrentApplyOnce ==
  [][/\ \A v \in Versions : Cardinality({r \in ledger' : r.version = v}) <= 1
     /\ AppliedVersions(ledger') = schema'
     /\ \A p \in AllProcs :
          /\ CommitsApply(p) =>
               /\ versions[p][idx[p]] \notin schema
               /\ ~IsAppliedIn(ledger, versions[p][idx[p]])
               /\ ledger' = ledger \cup tx[p].ins
               /\ schema' = schema \cup {versions[p][idx[p]]}
          /\ LosesRace(p) =>
               /\ pc'[p] = "done"
               /\ result'[p] = Err("migration failed", versions[p][idx[p]],
                                   "failed to record migration")
               /\ tx'[p].status = "rolledback"
               /\ ledger' = ledger /\ schema' = schema
    ]_vars

\* C27 witness: both invocations found the version pending, one committed it
\* and the other failed to record it.
C27_Witness ==
  \E p, q \in AllProcs :
    /\ p # q
    /\ op[p].name = "run" /\ op[q].name = "run"
    /\ pc[q] = "done" /\ result[q].cause = "failed to record migration"
    /\ ~IsAppliedIn(startLedger[q], result[q].version)
    /\ ~IsAppliedIn(startLedger[p], result[q].version)
    /\ result[q].version \in SeqToSet(Calls(trace[q], "up"))
    /\ result[q].version \in SeqToSet(Calls(trace[p], "commit"))
    /\ IsAppliedIn(ledger, result[q].version)
    /\ tx[q].status = "rolledback"

\* ------------------------------------------------ target and run-all claims
\* run-all resolution of the registry succeeds
RunAllResolves ==
  \E iter1 \in Perms(DOMAIN SMap), iter2 \in Perms(DOMAIN SMap) :
    ResolveDependencies(seeders, iter1, iter2).err = NoErr

\* the call resolved an order: it failed, if at all, in a seeder's Run
ResolvedAnOrder == toRun # <<>> /\ (sresult = NoErr \/ RunFailed)

\* C28: a target-scoped call for a registered target resolves an order whenever
\* run-all resolution of the same registry succeeds, and also whenever the
\* target's closure is acyclic and fully registered, whatever cycle or missing
\* dependency the seeders outside the closure have; the order it runs is the
\* closure.
C28_TargetInspectsClosureOnly ==
  TargetMode =>
    /\ RunAllResolves => ResolvedAnOrder
    /\ (~HasCycleIn(ClosureOf(sop.target)) /\ AllDepsRegistered(ClosureOf(sop.target))) =>
         /\ ResolvedAnOrder
         /\ SeqToSet(NamesOf(toRun)) = ClosureOf(sop.target)
         /\ runLog = NamesOf(SubSeq(toRun, 1, Len(runLog)))

\* C28 witness: the target and its dependency were run with success although
\* a seeder outside the closure declares an unregistered dependency, so that
\* run-all resolution fails.
C28_Witness ==
  /\ TargetMode /\ spc = "done" /\ sresult = NoErr
  /\ Len(runLog) = 2
  /\ ~RunAllResolves
  /\ ~AllDepsRegistered(DOMAIN SMap \ ClosureOf(sop.target))

\* --------------------------------------------------------- termination claim
NoDuplicates(q) == \A i, j \in 1..Len(q) : q[i] = q[j] => i = j

\* the recursion of visit went deeper than a path of distinct names can
RecursionUnbounded(e) == "stack overflow" \in SeqToSet(e.msgs)

\* C29: over every registry, cyclic graphs, self-dependencies, repeated
\* dependency entries and repeated names included, a resolution ends with an
\* order or with an error: the depth of the DFS never exceeds the number of
\* registered names plus one, and the Kahn queue loop dequeues each name at
\* most once, for every map iteration order.
C29_ResolutionTerminates ==
  /\ Resolving =>
       /\ ~RecursionUnbounded(sresult)
       /\ \/ toRun # <<>> /\ (sresult = NoErr \/ RunFailed)
          \/ toRun = <<>> /\ sresult # NoErr /\ ~RunFailed
  /\ \A n \in DOMAIN SMap :
       ~RecursionUnbounded(ResolveDependenciesFor(seeders, SMap[n]).err)
  /\ FirstMissing(seeders, SMap) = NoErr =>
       \A iter1 \in Perms(DOMAIN SMap), iter2 \in Perms(DOMAIN SMap) :
         /\ NoDuplicates(NamesOf(KahnResult(SMap, iter1, iter2)))
         /\ Len(KahnResult(SMap, iter1, iter2)) <= Cardinality(DOMAIN SMap)

\* C29 witness: a target-scoped resolution over a registry that repeats a name
\* and holds a self-dependency and a repeated dependency entry ended with the
\* cycle error.
C29_Witness ==
  /\ TargetMode /\ spc = "done" /\ IsCycleError(sresult)
  /\ Len(seeders) > Cardinality(DOMAIN SMap)
  /\ \E n \in DOMAIN SMap : n \in DirectDeps(n)
  /\ \E i \in 1..Len(seeders) : ~NoDuplicates(seeders[i].deps)

\* -------------------------------------------------------- ledger table claim
\* C30: the ledger table comes into existence only in a RunMigrations or a
\* GetMigrationStatus call; a RollbackMigrations of positive count issued while
\* the table does not exist returns the storage error of its query, opens no
\* transaction, invokes no down, leaves ledger and schema as they were and the
\* table still absent.
C30_RollbackNeverCreatesTable ==
  [][/\ hasTable' # hasTable =>
          /\ hasTable'
          /\ \E p \in AllProcs : pc[p] = "idle" /\ op'[p].name \in {"run", "status"}
     /\ \A p \in AllProcs :
          (op'[p].name = "rollback" /\ op'[p].count >= 1 /\ ~hasTable) =>
            /\ pc'[p] = "done"
            /\ result'[p] = Err("failed to get applied migrations", NoVersion, "storage")
            /\ trace'[p] = <<Ev("find", NoVersion)>>
            /\ tx'[p] = NoTx
            /\ ledger' = ledger /\ schema' = schema
            /\ ~hasTable'
    ]_vars

\* C30 witness: a rollback of count 1 has returned the storage error while the
\* ledger table does not exist.
C30_Witness ==
  \E p \in AllProcs :
    /\ pc[p] = "done" /\ op[p].name = "rollback" /\ op[p].count = 1
    /\ ~hasTable
    /\ result[p] = Err("failed to get applied migrations", NoVersion, "storage")

====
